---- MODULE Spec2Model ----
(***************************************************************************)
(* drift: multi-language static analysis engine.                           *)
(*                                                                         *)
(* SpecCalc   the exact (go/ast) complexity calculator, calcComplexity     *)
(* SpecHeur   the shared heuristic scanner, scanHeuristicComplexity        *)
(* SpecBound  the boundary rule engine, checkBoundaryViolations            *)
(* SpecDead   the heuristic dead-code cross-referencer                     *)
(* SpecDeps   the dependency resolvers and the dependency sub-score        *)
(* SpecScore  the score aggregator, Scorer.Calculate                       *)
(* SpecLang   language selection at construction of the Analyzer           *)
(* SpecRun    Analyzer.Run on one tree, followed by Calculate              *)
(* SpecSingle goroutines calling Run and RunSingle on one Analyzer         *)
(* SpecTui    the dashboard's re-analysis commands and its Scorer          *)
(* SpecWatch  the file watcher's loop and debounce timers                  *)
(* SpecRuby   the Ruby complexity scanner                                  *)
(* SpecWalk   file discovery from a root directory                         *)
(* SpecHist   the walk over the commit history                             *)
(***************************************************************************)
EXTENDS Integers, Sequences, FiniteSets, TLC

(***************************************************************************)
(* Bounds of the model                                                     *)
(***************************************************************************)
MaxNodes == 4
MaxLines == 4
MaxImports == 2
MaxRules == 2
MaxFiles == 2
MaxFileLines == 2
MaxDeps == 2
MaxFuncs == 2
MaxFound == 3
MaxRuns == 2
MaxCallers == 2
MaxAnalyses == 2
MaxFsEvents == 3
MaxTicks == 5
MaxRubyLines == 5
MaxTreeFiles == 3
MaxWalks == 2
MaxCommits == 3
ActivityCap == 20

(***************************************************************************)
(* State                                                                   *)
(***************************************************************************)
VARIABLES
    bodyNil,      \* fn.Body == nil (a declaration without a body)
    nodes,        \* the ast nodes below fn.Body, in breadth-first order
    complexity,   \* the value calcComplexity(fn.Body) returned last
    allLines,     \* the lines of the file the heuristic scanner reads
    results,      \* the FunctionComplexity records it returned last
    relPath,      \* the analyzed file's path relative to the root
    imports,      \* the imports extracted from it, in file order
    rules,        \* cfg.Boundaries, the configured deny rules
    violations,   \* the BoundaryViolation list returned last
    files,        \* the source files handed to AnalyzeDeadCode, each a list of lines
    dead,         \* the DeadFunction list returned last
    eco,          \* which resolver runs (the manifest format found)
    maxStaleDays, \* cfg.Thresholds.MaxStaleDays
    manifest,     \* the manifest's entries, in file order
    registry,     \* what the registry answers for each entry
    deps,         \* the DepStatus records appended so far
    visited,      \* the manifest entries the resolver's loop has passed
    depScore,     \* Score.Deps of the last Calculate, NoScore before
    requests,     \* the registry requests of the pass, in order
    cfg,          \* the Scorer's configuration: Weights and Thresholds
    analysis,     \* the Results handed to the last Calculate
    score,        \* the Score the last Calculate returned
    previous,     \* Scorer.previous, in tenths
    called,       \* whether Calculate has been called on the Scorer
    present,      \* the manifest files at the project root
    cfgLanguage,  \* cfg.Language
    analyzerKind, \* the LanguageAnalyzer analyzer.New chose, "none" before
    tree,         \* the source tree as the analyzer's methods see it
    runs,         \* what each Run (and Calculate) on it returned
    singleKind,   \* the LanguageAnalyzer of the shared Analyzer
    mu,           \* Analyzer.mu, the caller holding it or 0
    callerPc,     \* where each goroutine is in Run or RunSingle
    callerPath,   \* the path each RunSingle was called with
    lastFull,     \* the Results the last Run returned
    lastSingle,   \* the path and Results of the last RunSingle
    goroutine,    \* the command goroutines runAnalysis started
    scorerPrevious,\* previous of the dashboard's Scorer, in tenths
    shown,        \* model.score, the Score on the screen
    completed,    \* the Scores in the order Calculate returned them
    activity,     \* len(model.activity)
    now,          \* the time, in ticks of 100 ms
    arrivals,     \* the write and create events the loop has taken
    timers,       \* every timer the loop has made, by number
    debounce,     \* the timer in debounce[path], 0 for no entry
    eventsChan,   \* the Events sent to Watcher.Events
    ignored,      \* how many events the loop has passed over
    rubyLines,    \* the lines of the Ruby file scanned
    rubyResults,  \* what analyzeRubyComplexity returned for it
    walkLang,     \* the language whose FindFiles is called
    cfgExclude,   \* cfg.Exclude, the configured directory names
    contents,     \* the project's files, by path below the root
    walks,        \* the FindFiles calls made on these contents
    histLanguage, \* cfg.Language of the history analyzer's configuration
    gitLog,       \* the commits from HEAD back, newest first
    walkMax,      \* the maxCommits of the last Walk, NotWalked before it
    sparkline     \* the SparklineData the last Walk returned

calcVars == <<bodyNil, nodes, complexity>>
heurVars == <<allLines, results>>
boundVars == <<relPath, imports, rules, violations>>
deadVars == <<files, dead>>
depsVars == <<eco, maxStaleDays, manifest, registry, deps, visited, depScore, requests>>
scoreVars == <<cfg, analysis, score, previous, called>>
langVars == <<present, cfgLanguage, analyzerKind>>
runVars == <<tree, runs>>
singleVars == <<singleKind, mu, callerPc, callerPath, lastFull, lastSingle>>
tuiVars == <<goroutine, scorerPrevious, shown, completed, activity>>
watchVars == <<now, arrivals, timers, debounce, eventsChan, ignored>>
rubyVars == <<rubyLines, rubyResults>>
walkVars == <<walkLang, cfgExclude, contents, walks>>
histVars == <<histLanguage, gitLog, walkMax, sparkline>>
vars == <<bodyNil, nodes, complexity, allLines, results,
          relPath, imports, rules, violations, files, dead,
          eco, maxStaleDays, manifest, registry, deps, visited, depScore, requests,
          cfg, analysis, score, previous, called,
          present, cfgLanguage, analyzerKind, tree, runs,
          singleKind, mu, callerPc, callerPath, lastFull, lastSingle,
          goroutine, scorerPrevious, shown, completed, activity,
          now, arrivals, timers, debounce, eventsChan, ignored,
          rubyLines, rubyResults,
          walkLang, cfgExclude, contents, walks,
          histLanguage, gitLog, walkMax, sparkline>>

\* Each specification exercises one component; the others stay as constructed.
IdleCalc == bodyNil = TRUE /\ nodes = <<>> /\ complexity = 1
IdleHeur == allLines = <<>> /\ results = <<>>
IdleBound == relPath = <<>> /\ imports = <<>> /\ rules = <<>> /\ violations = <<>>
IdleDead == files = <<>> /\ dead = <<>>
NoScore == [num |-> -1, den |-> 1]
IdleDeps ==
    /\ eco = "go" /\ maxStaleDays = 90 /\ manifest = <<>> /\ registry = <<>>
    /\ deps = <<>> /\ visited = {} /\ depScore = NoScore /\ requests = <<>>
IdleScore ==
    /\ cfg = [Weights |-> <<>>, Thresholds |-> <<>>] /\ analysis = <<>>
    /\ score = <<>> /\ previous = -1 /\ called = FALSE
IdleLang == present = {} /\ cfgLanguage = "" /\ analyzerKind = "none"
IdleRun == tree = <<>> /\ runs = <<>>
IdleSingle == singleKind = "" /\ mu = 0 /\ callerPc = <<>> /\ callerPath = <<>> /\ lastFull = <<>> /\ lastSingle = <<>>
IdleTui == goroutine = <<>> /\ scorerPrevious = -1 /\ shown = <<>> /\ completed = <<>> /\ activity = 0
IdleWatch == now = 0 /\ arrivals = <<>> /\ timers = <<>> /\ debounce = 0 /\ eventsChan = <<>> /\ ignored = 0
IdleRuby == rubyLines = <<>> /\ rubyResults = <<>>
IdleWalk == walkLang = "" /\ cfgExclude = {} /\ contents = {} /\ walks = <<>>
IdleHist == histLanguage = "" /\ gitLog = <<>> /\ walkMax = -1 /\ sparkline = <<>>

(***************************************************************************)
(* The exact calculator: go/ast nodes and calcComplexity                   *)
(***************************************************************************)
\* Node kinds the switch in calcComplexity distinguishes. A node is
\* [kind, tag, parent]; parent 0 is the function body (the BlockStmt).
\* tag: for CaseClause "list" (List != nil) or "nil" (default:),
\*      for CommClause "comm" (Comm != nil) or "nil" (default:),
\*      for BinaryExpr the operator token.
StmtKinds == {"IfStmt", "ForStmt", "RangeStmt", "SwitchStmt", "TypeSwitchStmt", "SelectStmt"}
ExprKinds == {"BinaryExpr", "FuncLit"}

NodeShapes ==
    [kind : StmtKinds \cup {"FuncLit"}, tag : {""}]
    \cup [kind : {"CaseClause"}, tag : {"list", "nil"}]
    \cup [kind : {"CommClause"}, tag : {"comm", "nil"}]
    \cup [kind : {"BinaryExpr"}, tag : {"LAND", "LOR", "ADD"}]

KindOf(ns, i) == IF i = 0 THEN "BlockStmt" ELSE ns[i].kind

Children(ns, i) == {j \in 1..Len(ns) : ns[j].parent = i}

\* Which child kinds the Go grammar allows below a node.
AllowedChild(pk, ck) ==
    CASE pk \in {"SwitchStmt", "TypeSwitchStmt"} -> ck = "CaseClause"
      [] pk = "SelectStmt" -> ck = "CommClause"
      [] pk = "BinaryExpr" -> ck \in ExprKinds
      [] OTHER -> ck \in StmtKinds \cup ExprKinds

\* The increment of one visited node: the body of the type switch.
IncrementNoDefaultCheck(n) ==
    CASE n.kind \in {"IfStmt", "ForStmt", "RangeStmt", "CaseClause", "CommClause",
                     "SelectStmt", "TypeSwitchStmt"} -> 1
      [] n.kind = "BinaryExpr" -> IF n.tag \in {"LAND", "LOR"} THEN 1 ELSE 0
      [] OTHER -> 0

IncrementAndOnly(n) ==
    CASE n.kind \in {"IfStmt", "ForStmt", "RangeStmt"} -> 1
      [] n.kind = "CaseClause" -> IF n.tag = "list" THEN 1 ELSE 0
      [] n.kind = "CommClause" -> IF n.tag = "comm" THEN 1 ELSE 0
      [] n.kind = "BinaryExpr" -> IF n.tag = "LAND" THEN 1 ELSE 0
      [] n.kind \in {"SelectStmt", "TypeSwitchStmt"} -> 1
      [] OTHER -> 0

Increment(n) ==
    CASE n.kind \in {"IfStmt", "ForStmt", "RangeStmt"} -> 1
      [] n.kind = "CaseClause" -> IF n.tag = "list" THEN 1 ELSE 0
      [] n.kind = "CommClause" -> IF n.tag = "comm" THEN 1 ELSE 0
      [] n.kind = "BinaryExpr" -> IF n.tag \in {"LAND", "LOR"} THEN 1 ELSE 0
      [] n.kind \in {"SelectStmt", "TypeSwitchStmt"} -> 1
      [] OTHER -> 0

\* The callback's return value: false for a FuncLit, true otherwise.
DescendAlways(n) == TRUE

Descend(n) == n.kind # "FuncLit"

\* ast.Inspect: visit the node, then its children if the callback said so.
RECURSIVE Inspect(_, _), InspectAll(_, _)
Inspect(ns, i) ==
    Increment(ns[i]) + (IF Descend(ns[i]) THEN InspectAll(ns, Children(ns, i)) ELSE 0)

InspectAll(ns, S) ==
    IF S = {} THEN 0
    ELSE LET j == CHOOSE x \in S : TRUE
         IN  Inspect(ns, j) + InspectAll(ns, S \ {j})

calcComplexity(nil, ns) ==
    IF nil THEN 1 ELSE 1 + InspectAll(ns, Children(ns, 0))

(***************************************************************************)
(* SpecCalc: function bodies are built node by node and measured           *)
(***************************************************************************)
InitCalc ==
    /\ bodyNil \in BOOLEAN
    /\ nodes = <<>>
    /\ complexity = calcComplexity(bodyNil, <<>>)
    /\ IdleHeur /\ IdleBound /\ IdleDead /\ IdleDeps /\ IdleScore /\ IdleLang /\ IdleRun /\ IdleSingle /\ IdleTui /\ IdleWatch /\ IdleRuby /\ IdleWalk /\ IdleHist

\* A node is appended below an existing node (or the body), breadth-first:
\* parents never decrease, so each ordered tree has one encoding.
AddNode(shape, p) ==
    /\ ~bodyNil
    /\ Len(nodes) < MaxNodes
    /\ p \in 0..Len(nodes)
    /\ Len(nodes) > 0 => p >= nodes[Len(nodes)].parent
    /\ AllowedChild(KindOf(nodes, p), shape.kind)
    /\ KindOf(nodes, p) = "BinaryExpr" => Cardinality(Children(nodes, p)) < 2
    /\ nodes' = Append(nodes, [kind |-> shape.kind, tag |-> shape.tag, parent |-> p])
    /\ complexity' = calcComplexity(bodyNil, nodes')
    /\ UNCHANGED <<bodyNil, heurVars, boundVars, deadVars, depsVars, scoreVars, langVars, runVars, singleVars, tuiVars, watchVars, rubyVars, walkVars, histVars>>

\* The node added last (always a leaf) is removed again.
RemoveNode ==
    /\ Len(nodes) > 0
    /\ nodes' = SubSeq(nodes, 1, Len(nodes) - 1)
    /\ complexity' = calcComplexity(bodyNil, nodes')
    /\ UNCHANGED <<bodyNil, heurVars, boundVars, deadVars, depsVars, scoreVars, langVars, runVars, singleVars, tuiVars, watchVars, rubyVars, walkVars, histVars>>

NextCalc ==
    \/ \E shape \in NodeShapes, p \in 0..MaxNodes : AddNode(shape, p)
    \/ RemoveNode

SpecCalc == InitCalc /\ [][NextCalc]_vars

(***************************************************************************)
(* The heuristic scanner: detectFunctions and scanHeuristicComplexity      *)
(***************************************************************************)
\* A source line, as far as the scanner reads it:
\*   sig     "none": funcPattern does not match the line;
\*           "body": it matches and the declared function has a body;
\*           "nobody": it matches a declaration without a body (an interface
\*           or trait method, an abstract method, an overload signature);
\*   opens, closes   the numbers of '{' and '}' characters on the line;
\*   ops     the short-circuit operators on the line, in order.
OpTexts == { <<>>, <<"&&">>, <<"||">>, <<"&&", "||", "&&">> }

Lines ==
    [sig : {"nobody"}, opens : {0}, closes : {0}, ops : {<<>>}]
    \cup [sig : {"body"}, opens : {0, 1}, closes : {0}, ops : {<<>>}]
    \cup [sig : {"body"}, opens : {1}, closes : {1}, ops : OpTexts]
    \cup [sig : {"none"}, opens : {0, 1}, closes : {0, 1}, ops : OpTexts]

\* A complexityPattern table: the two operator patterns every language's
\* table has, {`&&`, 1} and {`\|\|`, 1}.
patterns == << [pattern |-> "&&", weight |-> 1], [pattern |-> "||", weight |-> 1] >>

\* p.pattern.MatchString(line): the pattern occurs somewhere on the line.
MatchString(p, line) == \E k \in 1..Len(line.ops) : line.ops[k] = p.pattern

\* The running brace depth after lines s..k, and whether a '{' was seen.
RECURSIVE DepthAfter(_, _, _)
DepthAfter(ls, s, k) ==
    IF k < s THEN 0
    ELSE DepthAfter(ls, s, k - 1) + ls[k].opens - ls[k].closes

Started(ls, s, k) == \E j \in s..k : ls[j].opens > 0

\* The end of the span that starts at line s (1-based, inclusive): the first
\* line after which started && depth <= 0, else the last line of the file.
SpanEnd(ls, s) ==
    LET closing == {k \in s..Len(ls) : Started(ls, s, k) /\ DepthAfter(ls, s, k) <= 0}
    IN  IF closing = {} THEN Len(ls)
        ELSE CHOOSE k \in closing : \A m \in closing : k <= m

\* detectFunctions: one funcBoundary per line funcPattern matches, in order.
detectFunctions(ls) ==
    LET sigs == {i \in 1..Len(ls) : ls[i].sig # "none"}
        Nth[n \in 1..Cardinality(sigs)] ==
            CHOOSE i \in sigs : Cardinality({j \in sigs : j < i}) = n - 1
    IN  [n \in 1..Cardinality(sigs) |->
            [line |-> Nth[n], start |-> Nth[n], end |-> SpanEnd(ls, Nth[n])]]

\* The weights one line adds: every pattern that matches adds its weight once.
RECURSIVE LineWeight(_, _)
LineWeight(line, n) ==
    IF n = 0 THEN 0
    ELSE LineWeight(line, n - 1)
         + (IF MatchString(patterns[n], line) THEN patterns[n].weight ELSE 0)

RECURSIVE SpanWeight(_, _, _)
SpanWeight(ls, s, e) ==
    IF e < s THEN 0
    ELSE SpanWeight(ls, s, e - 1) + LineWeight(ls[e], Len(patterns))

scanHeuristicComplexity(ls) ==
    LET funcs == detectFunctions(ls)
    IN  [n \in 1..Len(funcs) |->
            [Line |-> funcs[n].line,
             Complexity |-> 1 + SpanWeight(ls, funcs[n].start, funcs[n].end)]]

(***************************************************************************)
(* SpecHeur: a file grows line by line and is scanned                      *)
(***************************************************************************)
InitHeur ==
    /\ IdleCalc /\ IdleBound /\ IdleDead /\ IdleDeps /\ IdleScore /\ IdleLang /\ IdleRun /\ IdleSingle /\ IdleTui /\ IdleWatch /\ IdleRuby /\ IdleWalk /\ IdleHist
    /\ allLines = <<>>
    /\ results = scanHeuristicComplexity(<<>>)

AppendLine(l) ==
    /\ Len(allLines) < MaxLines
    /\ allLines' = Append(allLines, l)
    /\ results' = scanHeuristicComplexity(allLines')
    /\ UNCHANGED <<calcVars, boundVars, deadVars, depsVars, scoreVars, langVars, runVars, singleVars, tuiVars, watchVars, rubyVars, walkVars, histVars>>

DropLine ==
    /\ Len(allLines) > 0
    /\ allLines' = SubSeq(allLines, 1, Len(allLines) - 1)
    /\ results' = scanHeuristicComplexity(allLines')
    /\ UNCHANGED <<calcVars, boundVars, deadVars, depsVars, scoreVars, langVars, runVars, singleVars, tuiVars, watchVars, rubyVars, walkVars, histVars>>

NextHeur ==
    \/ \E l \in Lines : AppendLine(l)
    \/ DropLine

SpecHeur == InitHeur /\ [][NextHeur]_vars

\* A function whose body is empty: f() {}  or  f() { newline }  or the
\* brace on its own line.
HasEmptyBody(ls, i) ==
    LET quiet(k) == k <= Len(ls) /\ ls[k].sig = "none" /\ ls[k].ops = <<>>
    IN  /\ ls[i].sig = "body"
        /\ ls[i].ops = <<>>
        /\ \/ ls[i].opens = 1 /\ ls[i].closes = 1
           \/ /\ ls[i].opens = 1 /\ ls[i].closes = 0
              /\ quiet(i + 1) /\ ls[i + 1].opens = 0 /\ ls[i + 1].closes = 1
           \/ /\ ls[i].opens = 0
              /\ quiet(i + 1) /\ ls[i + 1].opens = 1 /\ ls[i + 1].closes = 1

HasNoBody(ls, i) == ls[i].sig = "nobody"

\* C1: every record has complexity >= 1, and a function with an empty or
\* absent body has complexity exactly 1 (exact calculator and heuristic
\* scanner alike).
C1_AtLeastOne ==
    /\ complexity >= 1
    /\ (bodyNil \/ nodes = <<>>) => complexity = 1
    /\ \A n \in 1..Len(results) :
          /\ results[n].Complexity >= 1
          /\ (HasEmptyBody(allLines, results[n].Line) \/ HasNoBody(allLines, results[n].Line))
                => results[n].Complexity = 1

\* On a line the '{' characters are taken to come before the '}' ones.
\* The depth has been positive somewhere in lines s..k.
WentPositive(ls, s, k) ==
    \E j \in s..k : DepthAfter(ls, s, j - 1) + ls[j].opens > 0

\* The last line of the span by brace depth: the first line on which the
\* depth comes back to zero after it has been positive, else the last line.
DepthSpanEnd(ls, s) ==
    LET closing == {k \in s..Len(ls) : WentPositive(ls, s, k) /\ DepthAfter(ls, s, k) <= 0}
    IN  IF closing = {} THEN Len(ls)
        ELSE CHOOSE k \in closing : \A m \in closing : k <= m

\* C26: every detected function's span starts at its signature line and
\* ends with the line on which the brace depth, counted from the signature
\* line, first returns to zero after having gone positive, or with the last
\* line of the file when it never does; the span is never empty and never
\* runs past the file.  (start and end are the first and last line here;
\* the code keeps start one lower: start < end <= number of lines.)
C26_BraceSpan ==
    LET funcs == detectFunctions(allLines)
    IN  \A n \in 1..Len(funcs) :
            /\ funcs[n].start = funcs[n].line
            /\ funcs[n].end = DepthSpanEnd(allLines, funcs[n].start)
            /\ funcs[n].start <= funcs[n].end /\ funcs[n].end <= Len(allLines)

\* The operator occurrences on lines s..e.
RECURSIVE Occurring(_, _, _)
Occurring(ls, s, e) ==
    IF e < s THEN 0 ELSE Occurring(ls, s, e - 1) + Len(ls[e].ops)

\* C28: in the heuristic calculator every occurrence of && and || inside a
\* function's span adds 1 to its complexity, several on one line included:
\* a body line `(a && b) || (c && d)` adds 3 to the base.
C28_EveryOccurrence ==
    LET funcs == detectFunctions(allLines)
    IN  \A n \in 1..Len(results) :
            results[n].Complexity = 1 + Occurring(allLines, funcs[n].start, funcs[n].end)

(***************************************************************************)
(* The boundary rule engine: parseBoundaryRule, matchesPath, matchesImport *)
(* and checkBoundaryViolations                                             *)
(***************************************************************************)
\* Text is a sequence of chunks of characters; "->" and " " are chunks of
\* their own, "/" ends the chunk of a path segment.
HasPrefix(s, prefix) ==
    Len(prefix) <= Len(s) /\ SubSeq(s, 1, Len(prefix)) = prefix

Contains(s, sub) ==
    \E i \in 1..(Len(s) + 1) :
        i + Len(sub) - 1 <= Len(s) /\ SubSeq(s, i, i + Len(sub) - 1) = sub

RECURSIVE TrimLeft(_)
TrimLeft(s) == IF s # <<>> /\ Head(s) = " " THEN TrimLeft(Tail(s)) ELSE s

RECURSIVE TrimRight(_)
TrimRight(s) ==
    IF s # <<>> /\ s[Len(s)] = " " THEN TrimRight(SubSeq(s, 1, Len(s) - 1)) ELSE s

TrimSpace(s) == TrimRight(TrimLeft(s))

\* filepath.Dir of a relative path: everything before the file name, "." for
\* a file directly under the root. A path is <<segment chunks..., file>>.
Dir(path) ==
    IF Len(path) <= 1 THEN <<".">> ELSE SubSeq(path, 1, Len(path) - 1)

\* strings.Split(deny, "->") must give exactly two parts; both are trimmed.
parseBoundaryRule(deny) ==
    LET arrows == {i \in 1..Len(deny) : deny[i] = "->"}
    IN  IF Cardinality(arrows) # 1 THEN [from |-> <<>>, to |-> <<>>]
        ELSE LET a == CHOOSE i \in arrows : TRUE
             IN  [from |-> TrimSpace(SubSeq(deny, 1, a - 1)),
                  to   |-> TrimSpace(SubSeq(deny, a + 1, Len(deny)))]

matchesPathExact(dir, pattern) == dir = pattern

\* filepath.ToSlash changes nothing where the separator is '/'.
matchesPath(dir, pattern) == HasPrefix(dir, pattern) \/ dir = pattern

matchesImport(importPath, pattern) == Contains(importPath, pattern)

\* The inner loop over the rules for one import, then the loop over imports.
RECURSIVE RuleLoop(_, _, _, _, _)
RuleLoop(fileDir, imps, i, rs, j) ==
    IF j > Len(rs) THEN <<>>
    ELSE LET r == parseBoundaryRule(rs[j])
             rest == RuleLoop(fileDir, imps, i, rs, j + 1)
         IN  IF r.from = <<>> \/ r.to = <<>> THEN rest
             ELSE IF matchesPath(fileDir, r.from) /\ matchesImport(imps[i].path, r.to)
                  THEN << [Line |-> imps[i].line, From |-> r.from, To |-> r.to,
                           Import |-> imps[i].path] >> \o rest
                  ELSE rest

RECURSIVE ImportLoop(_, _, _, _)
ImportLoop(fileDir, imps, i, rs) ==
    IF i > Len(imps) THEN <<>>
    ELSE RuleLoop(fileDir, imps, i, rs, 1) \o ImportLoop(fileDir, imps, i + 1, rs)

checkBoundaryViolations(path, imps, rs) ==
    IF Len(rs) = 0 THEN <<>>
    ELSE ImportLoop(Dir(path), imps, 1, rs)

(***************************************************************************)
(* SpecBound: one file, its imports and the rules, re-checked on a change  *)
(***************************************************************************)
\* Paths relative to the root; the last chunk is the file name.
RelPaths ==
    { <<"pkg/api", "x.go">>, <<"pkg/api", "/v1", "x.go">>, <<"pkg/api", "v2", "x.go">>,
      <<"pkg/other", "x.go">>, <<"x.go">> }

ImportPaths ==
    { <<"internal/db">>, <<"example.com/", "internal/db", "/sql">>,
      <<"internal/", "cache">>, <<"fmt">> }

DenyRules ==
    { <<"pkg/api", " ", "->", " ", "internal/db">>,
      <<"pkg/api", "->", "internal/db">>,
      <<"pkg/other", " ", "->", " ", "fmt">>,
      <<"pkg/api", " ", "internal/db">>,
      <<"pkg/api", " ", "->", " ", "internal/db", " ", "->", " ", "fmt">>,
      <<" ", "->", " ", "internal/db">> }

InitBound ==
    /\ IdleCalc /\ IdleHeur /\ IdleDead /\ IdleDeps /\ IdleScore /\ IdleLang /\ IdleRun /\ IdleSingle /\ IdleTui /\ IdleWatch /\ IdleRuby /\ IdleWalk /\ IdleHist
    /\ relPath \in RelPaths
    /\ imports = <<>>
    /\ rules = <<>>
    /\ violations = checkBoundaryViolations(relPath, <<>>, <<>>)

\* The file gains an import statement on its next line.
AddImport(path) ==
    /\ Len(imports) < MaxImports
    /\ imports' = Append(imports, [path |-> path, line |-> Len(imports) + 1])
    /\ violations' = checkBoundaryViolations(relPath, imports', rules)
    /\ UNCHANGED <<relPath, rules, calcVars, heurVars, deadVars, depsVars, scoreVars, langVars, runVars, singleVars, tuiVars, watchVars, rubyVars, walkVars, histVars>>

\* A rule is added to the configuration.
AddRule(deny) ==
    /\ Len(rules) < MaxRules
    /\ rules' = Append(rules, deny)
    /\ violations' = checkBoundaryViolations(relPath, imports, rules')
    /\ UNCHANGED <<relPath, imports, calcVars, heurVars, deadVars, depsVars, scoreVars, langVars, runVars, singleVars, tuiVars, watchVars, rubyVars, walkVars, histVars>>

NextBound ==
    \/ \E path \in ImportPaths : AddImport(path)
    \/ \E deny \in DenyRules : AddRule(deny)

SpecBound == InitBound /\ [][NextBound]_vars

\* A rule is of the form `from -> to` when it has one arrow with text on
\* both sides; From(d), To(d) are then its two sides.
WellFormed(deny) ==
    \E a \in 1..Len(deny) :
        /\ deny[a] = "->"
        /\ \A b \in 1..Len(deny) : deny[b] = "->" => b = a
        /\ \E k \in 1..(a - 1) : deny[k] # " "
        /\ \E k \in (a + 1)..Len(deny) : deny[k] # " "

Side(deny, left) ==
    LET a == CHOOSE i \in 1..Len(deny) : deny[i] = "->"
        part == IF left THEN SubSeq(deny, 1, a - 1) ELSE SubSeq(deny, a + 1, Len(deny))
    IN  TrimSpace(part)

\* The pairs (import, rule) the claim says are reported.
MatchingPairs ==
    {pr \in (1..Len(imports)) \X (1..Len(rules)) :
        /\ WellFormed(rules[pr[2]])
        /\ LET from == Side(rules[pr[2]], TRUE)
               dir == Dir(relPath)
           IN  dir = from \/ HasPrefix(dir, from)
        /\ Contains(imports[pr[1]].path, Side(rules[pr[2]], FALSE))}

\* C5: the violations of a file are exactly one per pair (import, rule
\* `from -> to`) where the file's relative directory equals or starts with
\* from and the import path contains to; under "pkg/api -> internal/db" a
\* file under pkg/api/ gets one violation per import containing internal/db
\* and a file under pkg/other/ none.
C5_OnePerPair ==
    /\ Len(violations) = Cardinality(MatchingPairs)
    /\ \A pr \in MatchingPairs :
          Cardinality({v \in 1..Len(violations) :
                          /\ violations[v].Line = imports[pr[1]].line
                          /\ violations[v].From = Side(rules[pr[2]], TRUE)
                          /\ violations[v].To = Side(rules[pr[2]], FALSE)
                          /\ violations[v].Import = imports[pr[1]].path})
            = Cardinality({q \in MatchingPairs :
                              /\ q[1] = pr[1]
                              /\ Side(rules[q[2]], TRUE) = Side(rules[pr[2]], TRUE)
                              /\ Side(rules[q[2]], FALSE) = Side(rules[pr[2]], FALSE)})
    /\ (rules = << <<"pkg/api", " ", "->", " ", "internal/db">> >>) =>
          /\ HasPrefix(relPath, <<"pkg/api">>) =>
                Len(violations) = Cardinality({i \in 1..Len(imports) :
                                      Contains(imports[i].path, <<"internal/db">>)})
          /\ HasPrefix(relPath, <<"pkg/other">>) => violations = <<>>

C5_Witness ==
    /\ relPath = <<"pkg/api", "/v1", "x.go">>
    /\ rules = << <<"pkg/api", " ", "->", " ", "internal/db">>,
                  <<"pkg/api", "->", "internal/db">> >>
    /\ Len(imports) = 2
    /\ imports[1].path = <<"example.com/", "internal/db", "/sql">>
    /\ imports[2].path = <<"fmt">>
    /\ Len(violations) = 2

(***************************************************************************)
(* The heuristic dead-code cross-referencer: detectExportsAndCalls         *)
(***************************************************************************)
\* Identifiers are chunk sequences, so that one can be part of another.
Foo == <<"foo">>
FooBar == <<"foo", "Bar">>

\* The lines a file can hold: an exported declaration of foo, a call of foo,
\* a call of fooBar, and a line without identifiers.
SourceLines ==
    { <<"export function ", "foo", "(", ") {">>,
      <<"foo", "(", ");">>,
      <<"foo", "Bar", "(", ");">>,
      <<"}">> }

IsIdentChunk(c) == c \in {"foo", "Bar"}

\* exportPattern.FindStringSubmatch(line)[exportNameGroup]: the identifier
\* that follows the export keyword, <<>> when the line does not match.
RECURSIVE IdentAt(_, _)
IdentAt(line, k) ==
    IF k > Len(line) \/ ~IsIdentChunk(line[k]) THEN <<>>
    ELSE <<line[k]>> \o IdentAt(line, k + 1)

ExportName(line) ==
    IF Len(line) >= 2 /\ line[1] = "export function " THEN IdentAt(line, 2) ELSE <<>>

\* cp.FindAllString(line, -1) for the call pattern \b\w+\( : the matched
\* texts, each an identifier together with the '(' that follows it.
CallMatches(line) ==
    {IdentAt(line, k) \o <<"(">> : k \in {j \in 1..Len(line) :
        /\ IsIdentChunk(line[j])
        /\ (j = 1 \/ ~IsIdentChunk(line[j - 1]))
        /\ j + Len(IdentAt(line, j)) <= Len(line)
        /\ line[j + Len(IdentAt(line, j))] = "(" }}

\* os.ReadFile(path): the text of a file, its lines joined by newlines.
RECURSIVE ReadFile(_)
ReadFile(file) ==
    IF file = <<>> THEN <<>> ELSE Head(file) \o <<"\n">> \o ReadFile(Tail(file))

\* strings.Count(text, name)
Count(text, name) ==
    Cardinality({i \in 1..Len(text) :
        i + Len(name) - 1 <= Len(text) /\ SubSeq(text, i, i + Len(name) - 1) = name})

\* The first loop: the exported map (a later declaration of a name
\* replaces an earlier one) and the called set of matched call texts.
Positions(fs) == {pos \in (1..Len(fs)) \X (1..MaxFileLines + 1) : pos[2] <= Len(fs[pos[1]])}

Before(a, b) == a[1] < b[1] \/ (a[1] = b[1] /\ a[2] < b[2])

Exported(fs) ==
    LET decls == {pos \in Positions(fs) : ExportName(fs[pos[1]][pos[2]]) # <<>>}
        last == {pos \in decls :
                    ~\E q \in decls : /\ Before(pos, q)
                                      /\ ExportName(fs[q[1]][q[2]]) = ExportName(fs[pos[1]][pos[2]])}
    IN  {[File |-> pos[1], Name |-> ExportName(fs[pos[1]][pos[2]]), Line |-> pos[2]] :
            pos \in last}

CalledByPattern(fs) ==
    UNION {CallMatches(fs[pos[1]][pos[2]]) : pos \in Positions(fs)}

\* The second loop: a name that occurs more than once in the text of one
\* file counts as called.
CalledByCount(fs) ==
    {e.Name : e \in {x \in Exported(fs) :
        \E f \in 1..Len(fs) : Count(ReadFile(fs[f]), x.Name) > 1}}

DeadSet(fs) ==
    {e \in Exported(fs) : e.Name \notin (CalledByPattern(fs) \cup CalledByCount(fs))}

\* The result is built by ranging over a map: its order is any order.
SeqsOf(S) ==
    {sq \in [1..Cardinality(S) -> S] : \A i, j \in 1..Cardinality(S) : i # j => sq[i] # sq[j]}

detectExportsAndCalls(fs) == SeqsOf(DeadSet(fs))

(***************************************************************************)
(* SpecDead: a set of files grows and is cross-referenced                  *)
(***************************************************************************)
InitDead ==
    /\ IdleCalc /\ IdleHeur /\ IdleBound /\ IdleDeps /\ IdleScore /\ IdleLang /\ IdleRun /\ IdleSingle /\ IdleTui /\ IdleWatch /\ IdleRuby /\ IdleWalk /\ IdleHist
    /\ files = <<>>
    /\ dead \in detectExportsAndCalls(<<>>)

AddFile ==
    /\ Len(files) < MaxFiles
    /\ files' = Append(files, <<>>)
    /\ dead' \in detectExportsAndCalls(files')
    /\ UNCHANGED <<calcVars, heurVars, boundVars, depsVars, scoreVars, langVars, runVars, singleVars, tuiVars, watchVars, rubyVars, walkVars, histVars>>

WriteLine(f, l) ==
    /\ f \in 1..Len(files)
    /\ Len(files[f]) < MaxFileLines
    /\ files' = [files EXCEPT ![f] = Append(@, l)]
    /\ dead' \in detectExportsAndCalls(files')
    /\ UNCHANGED <<calcVars, heurVars, boundVars, depsVars, scoreVars, langVars, runVars, singleVars, tuiVars, watchVars, rubyVars, walkVars, histVars>>

NextDead ==
    \/ AddFile
    \/ \E f \in 1..MaxFiles, l \in SourceLines : WriteLine(f, l)

SpecDead == InitDead /\ [][NextDead]_vars

\* How often the files declare, call and otherwise mention foo.
FooDecls == {pos \in Positions(files) : ExportName(files[pos[1]][pos[2]]) = Foo}
FooCalls == {pos \in Positions(files) : files[pos[1]][pos[2]] = <<"foo", "(", ");">>}
FooOther == {pos \in Positions(files) : files[pos[1]][pos[2]] = <<"foo", "Bar", "(", ");">>}
Reported(name) == \E i \in 1..Len(dead) : dead[i].Name = name

\* C6: a public symbol declared once and referenced nowhere else in the file
\* set is reported dead; the same symbol with one additional call-site
\* occurrence anywhere in the file set (the declaring file or any other
\* file) is not reported.
C6_DeadUnlessCalled ==
    /\ (Cardinality(FooDecls) = 1 /\ FooCalls = {} /\ FooOther = {}) => Reported(Foo)
    /\ (Cardinality(FooDecls) = 1 /\ Cardinality(FooCalls) = 1 /\ FooOther = {})
          => ~Reported(Foo)

(***************************************************************************)
(* The dependency resolvers: one per manifest format                       *)
(***************************************************************************)
\* Version texts are chunk sequences: a range operator, then the number.
V1 == <<"1.0">>
V2 == <<"2.0">>

Ecosystems ==
    {"go", "npm", "requirements", "pyproject", "cargo",
     "pom", "gradle", "csproj", "gemfile", "composer"}

\* The version constraints an entry of each manifest format can carry
\* (<<>>: the entry names no version).
ManifestForms(e) ==
    CASE e = "go"           -> {V1}
      [] e = "npm"          -> {V1, <<"^", "1.0">>}
      [] e = "requirements" -> {<<>>, <<"==", "1.0">>, <<">=", "1.0">>}
      [] e = "pyproject"    -> {<<>>, <<"==", "1.0">>}
      [] e = "cargo"        -> {V1, <<"^", "1.0">>}
      [] e = "pom"          -> {<<>>, V1}
      [] e = "gradle"       -> {V1}
      [] e = "csproj"       -> {<<>>, V1}
      [] e = "gemfile"      -> {<<>>, V1, <<">=", "1.0">>}
      [] e = "composer"     -> {V1, <<"^", "1.0">>}

\* Formats whose resolver drops entries by flag, name or section: an
\* indirect requirement of go.mod, "python" of pyproject.toml, an entry under
\* [dev-dependencies] of Cargo.toml, a PackageReference without Include,
\* "php" and "ext-*" of composer.json.
HasFilter(e) == e \in {"go", "pyproject", "cargo", "csproj", "composer"}

Entries(e) ==
    {[declared |-> d, filtered |-> FALSE] : d \in ManifestForms(e)}
        \cup (IF HasFilter(e) THEN {[declared |-> V1, filtered |-> TRUE]} ELSE {})

\* The entries a resolver's loop passes over without a record.
Skipped(e, entry) ==
    \/ entry.filtered
    \/ e = "pom" /\ (entry.declared = <<>> \/ HasPrefix(entry.declared, <<"${">>))

\* strings.TrimPrefix(v, p) for a one-chunk prefix
TrimPrefix(v, p) == IF v # <<>> /\ Head(v) = p THEN Tail(v) ELSE v

\* strings.TrimLeft(v, cutset): a chunk goes when all its characters are in
\* the cutset, given here as the chunks that consist of such characters.
RECURSIVE TrimLeftCutset(_, _)
TrimLeftCutset(v, cutset) ==
    IF v # <<>> /\ Head(v) \in cutset THEN TrimLeftCutset(Tail(v), cutset) ELSE v

cleanVersion(v) ==
    TrimPrefix(TrimPrefix(TrimPrefix(TrimPrefix(TrimPrefix(TrimPrefix(TrimPrefix(
        v, "^"), "~"), ">="), "<="), ">"), "<"), "=")

\* The text after the first separator of a requirements.txt line.
AfterSeparator(v) ==
    IF v # <<>> /\ Head(v) \in {"==", ">=", "<=", "~=", "!="} THEN Tail(v) ELSE <<>>

\* DepStatus.CurrentVersion as each resolver fills it in.
CurrentVersion(e, declared) ==
    CASE e = "npm"          -> cleanVersion(declared)
      [] e = "requirements" -> AfterSeparator(declared)
      [] e = "pyproject"    -> <<>>
      [] e = "gemfile"      -> TrimLeftCutset(declared, {"~", ">", "=", ">=", " "})
      [] e = "composer"     -> TrimLeftCutset(declared,
                                  {"^", "~", ">", "=", "<", "!", ">=", "<=", " "})
      [] OTHER              -> declared

\* What the registry answers for one dependency: the latest-version lookup
\* fails or gives the latest version; the Go proxy gives its publish time
\* with it (days: whole days since then), npm gives it to a second request
\* that can fail on its own (timeOk).
DaysValues == {0, 60, 90, 91}
Failed == [ok |-> FALSE, latest |-> <<>>, days |-> 0, timeOk |-> FALSE]

Answers(e, entry) ==
    IF Skipped(e, entry) THEN {Failed}
    ELSE {Failed}
         \cup {[ok |-> TRUE, latest |-> l, days |-> d, timeOk |-> TRUE] :
                  l \in {V1, V2}, d \in IF e \in {"go", "npm"} THEN DaysValues ELSE {0}}
         \cup (IF e = "npm"
               THEN {[ok |-> TRUE, latest |-> l, days |-> 0, timeOk |-> FALSE] : l \in {V1, V2}}
               ELSE {})

OutdatedAfter == 90
FixedEstimate == 30

Unknown(cv) ==
    [CurrentVersion |-> cv, LatestVersion |-> <<"?">>, StaleDays |-> 0, Status |-> "unknown"]

Current(cv, latest) ==
    [CurrentVersion |-> cv, LatestVersion |-> latest, StaleDays |-> 0, Status |-> "current"]

\* The branch of the Go and npm resolvers for differing versions.
ByAge(cv, latest, staleDays) ==
    [CurrentVersion |-> cv, LatestVersion |-> latest, StaleDays |-> staleDays,
     Status |-> IF staleDays > OutdatedAfter THEN "outdated" ELSE "stale"]

\* The branch of the other resolvers for differing versions.
Stale30(cv, latest) ==
    [CurrentVersion |-> cv, LatestVersion |-> latest, StaleDays |-> FixedEstimate,
     Status |-> "stale"]

estimateStaleDays(ans) == IF ans.timeOk THEN ans.days ELSE FixedEstimate

\* go.mod
analyzeDeps(cv, ans) ==
    IF ~ans.ok THEN Unknown(cv)
    ELSE IF cv = ans.latest THEN Current(cv, ans.latest)
    ELSE ByAge(cv, ans.latest, ans.days)

\* package.json
tsAnalyzeDeps(cv, ans) ==
    IF ~ans.ok THEN Unknown(cv)
    ELSE IF cv = ans.latest THEN Current(cv, ans.latest)
    ELSE ByAge(cv, ans.latest, estimateStaleDays(ans))

\* Versions must be equal: Cargo.toml, pom.xml, build.gradle.
StrictResolver(cv, ans) ==
    IF ~ans.ok THEN Unknown(cv)
    ELSE IF cv = ans.latest THEN Current(cv, ans.latest)
    ELSE Stale30(cv, ans.latest)

\* An entry without a version passes too: requirements.txt, *.csproj,
\* Gemfile, composer.json.
LenientResolver(cv, ans) ==
    IF ~ans.ok THEN Unknown(cv)
    ELSE IF cv = ans.latest \/ cv = <<>> THEN Current(cv, ans.latest)
    ELSE Stale30(cv, ans.latest)

rustAnalyzeDeps(cv, ans) == StrictResolver(cv, ans)
parsePomDeps(cv, ans) == StrictResolver(cv, ans)
parseGradleDeps(cv, ans) == StrictResolver(cv, ans)
parsePythonRequirements(cv, ans) == LenientResolver(cv, ans)
parseCsprojDeps(cv, ans) == LenientResolver(cv, ans)
rubyAnalyzeDeps(cv, ans) == LenientResolver(cv, ans)
phpAnalyzeDeps(cv, ans) == LenientResolver(cv, ans)

\* pyproject.toml
parsePyproject(cv, ans) ==
    IF ~ans.ok THEN Unknown(cv) ELSE Current(cv, ans.latest)

\* A variant of the requests in which npm asks for no release date.
FetchesLatestOnly(e, entry, ans) ==
    IF Skipped(e, entry) THEN <<>> ELSE <<"latest">>

\* The registry requests the loop body makes for one manifest entry: none
\* for an entry it passes over, else the latest-version request; the npm
\* resolver calls estimateStaleDays when the versions differ, which asks
\* the registry for the package's release dates.
Fetches(e, entry, ans) ==
    IF Skipped(e, entry) THEN <<>>
    ELSE IF e = "npm" /\ ans.ok /\ CurrentVersion(e, entry.declared) # ans.latest
         THEN <<"latest", "time">>
         ELSE <<"latest">>

\* The record a resolver appends for manifest entry i.
Resolve(e, i, entry, ans) ==
    LET cv == CurrentVersion(e, entry.declared)
        r == CASE e = "go"           -> analyzeDeps(cv, ans)
               [] e = "npm"          -> tsAnalyzeDeps(cv, ans)
               [] e = "requirements" -> parsePythonRequirements(cv, ans)
               [] e = "pyproject"    -> parsePyproject(cv, ans)
               [] e = "cargo"        -> rustAnalyzeDeps(cv, ans)
               [] e = "pom"          -> parsePomDeps(cv, ans)
               [] e = "gradle"       -> parseGradleDeps(cv, ans)
               [] e = "csproj"       -> parseCsprojDeps(cv, ans)
               [] e = "gemfile"      -> rubyAnalyzeDeps(cv, ans)
               [] e = "composer"     -> phpAnalyzeDeps(cv, ans)
    IN  [Module |-> i, CurrentVersion |-> r.CurrentVersion,
         LatestVersion |-> r.LatestVersion, StaleDays |-> r.StaleDays,
         Status |-> r.Status]

(***************************************************************************)
(* Scorer.depsScore.  Scores are exact fractions num/den; the code's       *)
(* float64 arithmetic is the same computation.                             *)
(***************************************************************************)
ThresholdValues == {0, 30, 90}
DefaultMaxStale == 90
PenaltyCap == 15
FullScore == 100

Min(a, b) == IF a < b THEN a ELSE b
Max(a, b) == IF a > b THEN a ELSE b

RECURSIVE SumSeq(_)
SumSeq(sq) == IF sq = <<>> THEN 0 ELSE Head(sq) + SumSeq(Tail(sq))

\* A variant that also charges the cap for a record of unknown status.
depsScoreChargingUnknown(ds, cfgMaxStale) ==
    IF Len(ds) = 0 THEN [num |-> FullScore, den |-> 1]
    ELSE LET maxStale == IF cfgMaxStale = 0 THEN DefaultMaxStale ELSE cfgMaxStale
             den == IF maxStale < 0 THEN -maxStale ELSE maxStale
             sgn == IF maxStale < 0 THEN -1 ELSE 1
             penalty(dep) ==
                 IF dep.Status = "unknown" THEN PenaltyCap * den
                 ELSE IF dep.StaleDays > 0
                      THEN Min(sgn * dep.StaleDays * PenaltyCap, PenaltyCap * den)
                      ELSE 0
             totalPenalty == SumSeq([i \in 1..Len(ds) |-> penalty(ds[i])])
         IN  [num |-> Max(0, Min(FullScore * den, FullScore * den - totalPenalty)),
              den |-> den]

\* penalty and totalPenalty are numerators over |maxStale|; a negative
\* maxStale makes the ratio negative.
depsScore(ds, cfgMaxStale) ==
    IF Len(ds) = 0 THEN [num |-> FullScore, den |-> 1]
    ELSE LET maxStale == IF cfgMaxStale = 0 THEN DefaultMaxStale ELSE cfgMaxStale
             den == IF maxStale < 0 THEN -maxStale ELSE maxStale
             sgn == IF maxStale < 0 THEN -1 ELSE 1
             penalty(dep) ==
                 IF dep.StaleDays > 0
                 THEN Min(sgn * dep.StaleDays * PenaltyCap, PenaltyCap * den)
                 ELSE 0
             totalPenalty == SumSeq([i \in 1..Len(ds) |-> penalty(ds[i])])
         IN  [num |-> Max(0, Min(FullScore * den, FullScore * den - totalPenalty)),
              den |-> den]

(***************************************************************************)
(* SpecDeps: a manifest is resolved entry by entry, then scored            *)
(***************************************************************************)
\* The entries the resolver's loop has not reached; a variant that stops
\* at the first failed lookup comes first.
RemainingUntilFailure(n, seen, ds) ==
    IF \E k \in 1..Len(ds) : ds[k].Status = "unknown" THEN {} ELSE (1..n) \ seen

Remaining(n, seen, ds) == (1..n) \ seen

\* package.json and composer.json are decoded into maps and ranged over in
\* any order; the other manifests are read top to bottom.
NextEntries(e, n, seen, ds) ==
    LET rest == Remaining(n, seen, ds)
    IN  IF e \in {"npm", "composer"} THEN rest
        ELSE {i \in rest : \A j \in rest : i <= j}

InitDeps ==
    /\ IdleCalc /\ IdleHeur /\ IdleBound /\ IdleDead /\ IdleScore /\ IdleLang /\ IdleRun /\ IdleSingle /\ IdleTui /\ IdleWatch /\ IdleRuby /\ IdleWalk /\ IdleHist
    /\ eco \in Ecosystems
    /\ maxStaleDays \in ThresholdValues
    /\ \E n \in 0..MaxDeps :
          /\ manifest \in [1..n -> Entries(eco)]
          /\ registry \in [1..n -> UNION {Answers(eco, en) : en \in Entries(eco)}]
          /\ \A i \in 1..n : registry[i] \in Answers(eco, manifest[i])
    /\ deps = <<>>
    /\ visited = {}
    /\ depScore = NoScore
    /\ requests = <<>>

\* One pass of the resolver's loop body.
ResolveNext(i) ==
    /\ depScore = NoScore
    /\ i \in NextEntries(eco, Len(manifest), visited, deps)
    /\ visited' = visited \cup {i}
    /\ deps' = IF Skipped(eco, manifest[i]) THEN deps
               ELSE Append(deps, Resolve(eco, i, manifest[i], registry[i]))
    /\ requests' = requests \o [k \in 1..Len(Fetches(eco, manifest[i], registry[i])) |->
                                  [dep |-> i, url |-> Fetches(eco, manifest[i], registry[i])[k]]]
    /\ UNCHANGED <<eco, maxStaleDays, manifest, registry, depScore>>
    /\ UNCHANGED <<calcVars, heurVars, boundVars, deadVars, scoreVars, langVars, runVars, singleVars, tuiVars, watchVars, rubyVars, walkVars, histVars>>

\* The resolver has returned; the scorer computes Score.Deps of the list.
ScoreDeps ==
    /\ depScore = NoScore
    /\ Remaining(Len(manifest), visited, deps) = {}
    /\ depScore' = depsScore(deps, maxStaleDays)
    /\ UNCHANGED <<eco, maxStaleDays, manifest, registry, deps, visited, requests>>
    /\ UNCHANGED <<calcVars, heurVars, boundVars, deadVars, scoreVars, langVars, runVars, singleVars, tuiVars, watchVars, rubyVars, walkVars, histVars>>

NextDeps ==
    \/ \E i \in 1..MaxDeps + 1 : ResolveNext(i)
    \/ ScoreDeps

SpecDeps == InitDeps /\ [][NextDeps]_vars

(***************************************************************************)
(* The score aggregator: Scorer.Calculate and its penalty functions.       *)
(* Sub-scores are exact fractions num/den with den > 0, weights are whole  *)
(* hundredths, Total and Delta are whole tenths; the code computes the     *)
(* same values in float64.                                                 *)
(***************************************************************************)
Abs(x) == IF x < 0 THEN -x ELSE x
Whole(n) == [num |-> n, den |-> 1]

DefaultMaxComplexity == 15
ComplexityCap == 20
ViolationPenalty == 10
DeadPenalty == 5
CoverageScore == 100
WeightUnit == 100
Tenths == 10
NoPrevious == -1 * Tenths

\* math.Max(0, math.Min(100, 100 - totalPenalty)), all over den
Clamp(totalPenalty, den) ==
    [num |-> Max(0, Min(FullScore * den, FullScore * den - totalPenalty)), den |-> den]

\* penalty and totalPenalty are numerators over |threshold|; a negative
\* threshold makes excess/threshold negative.
complexityScore(cs, cfgMaxComplexity) ==
    IF Len(cs) = 0 THEN Whole(FullScore)
    ELSE LET threshold == IF cfgMaxComplexity = 0 THEN DefaultMaxComplexity
                          ELSE cfgMaxComplexity
             den == Abs(threshold)
             sgn == IF threshold < 0 THEN -1 ELSE 1
             penalty(fc) ==
                 IF fc.Complexity > threshold
                 THEN Min(sgn * (fc.Complexity - threshold) * ComplexityCap,
                          ComplexityCap * den)
                 ELSE 0
             totalPenalty == SumSeq([i \in 1..Len(cs) |-> penalty(cs[i])])
         IN  Clamp(totalPenalty, den)

\* A variant without the final clamp.
boundariesScoreUnclamped(n) ==
    IF n = 0 THEN FullScore ELSE FullScore - n * ViolationPenalty

\* n is len(r.Violations)
boundariesScore(n) ==
    IF n = 0 THEN FullScore
    ELSE Max(0, Min(FullScore, FullScore - n * ViolationPenalty))

\* n is len(r.DeadCode)
deadCodeScore(n) ==
    IF n = 0 THEN FullScore
    ELSE Max(0, Min(FullScore, FullScore - n * DeadPenalty))

\* A variant of math.Round that drops the fraction.
RoundTowardZero(p, q) ==
    (IF p < 0 THEN -1 ELSE 1) * (Abs(p) \div q)

\* math.Round(p / q) for q > 0: to the nearest integer, halves away from zero.
Round(p, q) ==
    (IF p < 0 THEN -1 ELSE 1) * ((2 * Abs(p) + q) \div (2 * q))

\* A variant that adds the coverage sub-score with weight one.
WeightedSumPlainCoverage(sc, w) ==
    LET cd == sc.Complexity.den * sc.Deps.den
    IN  [num |-> sc.Complexity.num * sc.Deps.den * w.Complexity
                 + sc.Deps.num * sc.Complexity.den * w.Deps
                 + (sc.Boundaries * w.Boundaries + sc.DeadCode * w.DeadCode
                    + sc.Coverage * WeightUnit) * cd,
         den |-> cd * WeightUnit]

\* score.Complexity*w.Complexity + ... + score.Coverage*w.Coverage
WeightedSum(sc, w) ==
    LET cd == sc.Complexity.den * sc.Deps.den
    IN  [num |-> sc.Complexity.num * sc.Deps.den * w.Complexity
                 + sc.Deps.num * sc.Complexity.den * w.Deps
                 + (sc.Boundaries * w.Boundaries + sc.DeadCode * w.DeadCode
                    + sc.Coverage * w.Coverage) * cd,
         den |-> cd * WeightUnit]

\* Scorer.Calculate(r) on a Scorer with configuration c and stored total
\* prev: the Score returned; s.previous becomes its Total.
Calculate(r, c, prev) ==
    LET sc == [Complexity |-> complexityScore(r.Complexity, c.Thresholds.MaxComplexity),
               Deps       |-> depsScore(r.Dependencies, c.Thresholds.MaxStaleDays),
               Boundaries |-> boundariesScore(r.Violations),
               DeadCode   |-> deadCodeScore(r.DeadCode),
               Coverage   |-> CoverageScore]
        sum == WeightedSum(sc, c.Weights)
        total == Round(sum.num * Tenths, sum.den)
    IN  [Complexity |-> sc.Complexity, Deps |-> sc.Deps, Boundaries |-> sc.Boundaries,
         DeadCode |-> sc.DeadCode, Coverage |-> sc.Coverage,
         Total |-> total,
         Delta |-> IF prev >= 0 THEN total - prev ELSE 0]

(***************************************************************************)
(* SpecScore: one Scorer is handed analysis results, call after call       *)
(***************************************************************************)
DefaultWeights ==
    [Complexity |-> 30, Deps |-> 20, Boundaries |-> 20, DeadCode |-> 15, Coverage |-> 15]
DefaultThresholds == [MaxComplexity |-> 15, MaxStaleDays |-> 90]

\* Configurations config.Load returns: the defaults, and files that set
\* thresholds or weights to other values (Load validates neither).
Configs ==
    {[Weights |-> DefaultWeights, Thresholds |-> th] :
        th \in {DefaultThresholds,
                [MaxComplexity |-> 0, MaxStaleDays |-> 0],
                [MaxComplexity |-> 10, MaxStaleDays |-> 30],
                [MaxComplexity |-> -5, MaxStaleDays |-> -30]}}
    \cup
    {[Weights |-> w, Thresholds |-> DefaultThresholds] :
        w \in {[Complexity |-> 100, Deps |-> 100, Boundaries |-> 100,
                DeadCode |-> 100, Coverage |-> 100],
               [Complexity |-> -100, Deps |-> 0, Boundaries |-> 0,
                DeadCode |-> 0, Coverage |-> 0]}}

\* The results a run can hand over: Complexity is sorted by Run, largest
\* first; Violations and DeadCode stand for the lengths of the lists.
ComplexityValues == {5, 20, 40}
ScoredDeps ==
    {[StaleDays |-> 0, Status |-> "current"], [StaleDays |-> 60, Status |-> "stale"],
     [StaleDays |-> 200, Status |-> "outdated"]}
ViolationCounts == {0, 11}
DeadCounts == {0, 1, 21}

ComplexityLists ==
    {l \in UNION {[1..n -> [Complexity : ComplexityValues]] : n \in 0..MaxFuncs} :
        \A i \in 1..Len(l) - 1 : l[i].Complexity >= l[i + 1].Complexity}
DependencyLists == UNION {[1..n -> ScoredDeps] : n \in 0..MaxDeps}

RemoveAt(l, i) == SubSeq(l, 1, i - 1) \o SubSeq(l, i + 1, Len(l))

\* One list is the other with one item more.
OneApart(x, y) ==
    \/ Len(x) = Len(y) + 1 /\ \E i \in 1..Len(x) : RemoveAt(x, i) = y
    \/ Len(y) = Len(x) + 1 /\ \E i \in 1..Len(y) : RemoveAt(y, i) = x

\* The results of the next run: the tree is unchanged, or one function, one
\* dependency, the violations or the dead functions have changed.
Reanalysed(a) ==
    {a}
    \cup {[a EXCEPT !.Complexity = cs] : cs \in {l \in ComplexityLists : OneApart(l, a.Complexity)}}
    \cup {[a EXCEPT !.Dependencies = ds] :
              ds \in {l \in DependencyLists : OneApart(l, a.Dependencies)}}
    \cup {[a EXCEPT !.Violations = nv] : nv \in ViolationCounts}
    \cup {[a EXCEPT !.DeadCode = nd] : nd \in DeadCounts}

ZeroScore ==
    [Complexity |-> Whole(0), Deps |-> Whole(0), Boundaries |-> 0, DeadCode |-> 0,
     Coverage |-> 0, Total |-> 0, Delta |-> 0]

\* NewScorer(cfg)
InitScore ==
    /\ IdleCalc /\ IdleHeur /\ IdleBound /\ IdleDead /\ IdleDeps /\ IdleLang /\ IdleRun /\ IdleSingle /\ IdleTui /\ IdleWatch /\ IdleRuby /\ IdleWalk /\ IdleHist
    /\ cfg \in Configs
    /\ previous = NoPrevious
    /\ called = FALSE
    /\ analysis = [Complexity |-> <<>>, Dependencies |-> <<>>, Violations |-> 0, DeadCode |-> 0]
    /\ score = ZeroScore

\* s.Calculate(r)
CalculateCall(r) ==
    /\ score' = Calculate(r, cfg, previous)
    /\ previous' = score'.Total
    /\ called' = TRUE
    /\ analysis' = r
    /\ UNCHANGED cfg
    /\ UNCHANGED <<calcVars, heurVars, boundVars, deadVars, depsVars, langVars, runVars, singleVars, tuiVars, watchVars, rubyVars, walkVars, histVars>>

NextScore == \E r \in Reanalysed(analysis) : CalculateCall(r)

SpecScore == InitScore /\ [][NextScore]_vars

\* A fraction num/den (den > 0) compared with whole numbers.
InRange(x) == 0 <= x.num /\ x.num <= 100 * x.den
Is(x, n) == x.num = n * x.den

\* C11: for every analysis result and any configured thresholds, each of
\* the five sub-scores Calculate returns lies in [0,100].
C11_SubScoresInRange ==
    called =>
        /\ InRange(score.Complexity)
        /\ InRange(score.Deps)
        /\ 0 <= score.Boundaries /\ score.Boundaries <= 100
        /\ 0 <= score.DeadCode /\ score.DeadCode <= 100
        /\ 0 <= score.Coverage /\ score.Coverage <= 100

\* Penalties beyond 100 and negative thresholds, both clamped.
C11_Witness ==
    /\ called
    /\ cfg.Thresholds.MaxComplexity < 0 /\ cfg.Thresholds.MaxStaleDays < 0
    /\ Len(analysis.Complexity) = 2 /\ Len(analysis.Dependencies) = 2
    /\ analysis.Dependencies[1].StaleDays > 0
    /\ analysis.Violations = 11 /\ analysis.DeadCode = 21
    /\ Is(score.Complexity, 100) /\ Is(score.Deps, 100)
    /\ score.Boundaries = 0 /\ score.DeadCode = 0

\* C12: Total is the sum over the five metrics of sub-score times weight,
\* rounded to one decimal place, a half going away from zero (up, for the
\* sums of non-negative weights); sub-scores (80, 90, 100, 95, 100) under
\* weights (0.30, 0.20, 0.20, 0.15, 0.15) give 91.25, returned as 91.3.
C12_TotalRounded ==
    called =>
        LET w == cfg.Weights
            cd == score.Complexity.den * score.Deps.den
            den == cd * 100
            \* ten times the weighted sum is num10 / den
            num10 == 10 * (score.Complexity.num * score.Deps.den * w.Complexity
                           + score.Deps.num * score.Complexity.den * w.Deps
                           + (score.Boundaries * w.Boundaries
                              + score.DeadCode * w.DeadCode
                              + score.Coverage * w.Coverage) * cd)
            off == Abs(score.Total * den - num10)
        IN  /\ 2 * off <= den
            /\ 2 * off = den => Abs(score.Total * den) > Abs(num10)
            /\ ( /\ Is(score.Complexity, 80) /\ Is(score.Deps, 90)
                 /\ score.Boundaries = 100 /\ score.DeadCode = 95
                 /\ score.Coverage = 100
                 /\ w = [Complexity |-> 30, Deps |-> 20, Boundaries |-> 20,
                         DeadCode |-> 15, Coverage |-> 15] )
                  => score.Total = 913

C12_Witness ==
    /\ called
    /\ cfg = [Weights |-> DefaultWeights, Thresholds |-> DefaultThresholds]
    /\ analysis.Complexity = <<[Complexity |-> 40]>>
    /\ analysis.Dependencies = <<[StaleDays |-> 60, Status |-> "stale"]>>
    /\ analysis.Violations = 0 /\ analysis.DeadCode = 1
    /\ Is(score.Complexity, 80) /\ Is(score.Deps, 90)
    /\ score.Boundaries = 100 /\ score.DeadCode = 95 /\ score.Coverage = 100
    /\ score.Total = 913

WeightsNormal ==
    LET w == cfg.Weights
    IN  /\ w.Complexity >= 0 /\ w.Deps >= 0 /\ w.Boundaries >= 0
        /\ w.DeadCode >= 0 /\ w.Coverage >= 0
        /\ w.Complexity + w.Deps + w.Boundaries + w.DeadCode + w.Coverage <= WeightUnit

C14_DeltaChain ==
    [][ called' =>
          /\ previous' = score'.Total
          /\ score'.Delta = IF called THEN score'.Total - score.Total ELSE 0 ]_vars

\* The manifest entries a resolver makes a record for, and their records.
Extracted == {i \in 1..Len(manifest) : ~Skipped(eco, manifest[i])}
RecordsOf(i) == {k \in 1..Len(deps) : deps[k].Module = i}
Returned == depScore # NoScore

\* C7: a resolved dependency is classified current, with staleDays 0,
\* exactly when its declared version equals the latest version the registry
\* returned (the declared version read as the resolver extracted it).
C7_CurrentIffEqual ==
    \A k \in 1..Len(deps) :
        deps[k].Status # "unknown" =>
            ((deps[k].Status = "current" /\ deps[k].StaleDays = 0)
                <=> deps[k].CurrentVersion = deps[k].LatestVersion)

\* C8: where the registry supplied a publish time and the declared version
\* differs from the latest, the status is stale when the days since publish
\* are at most the configured threshold (default 90) and outdated when they
\* exceed it, whatever threshold is configured.
Threshold == IF maxStaleDays = 0 THEN DefaultMaxStale ELSE maxStaleDays

C8_ThresholdSplits ==
    \A k \in 1..Len(deps) :
        LET r == deps[k]
            a == registry[r.Module]
        IN  (eco \in {"go", "npm"} /\ a.ok /\ a.timeOk /\ r.CurrentVersion # a.latest) =>
                /\ r.Status = "stale" <=> a.days <= Threshold
                /\ r.Status = "outdated" <=> a.days > Threshold

\* The requests made for entry i that failed.
LookupFailed(i) == ~registry[i].ok
FollowUpFailed(i) ==
    /\ eco = "npm" /\ registry[i].ok /\ ~registry[i].timeOk
    /\ CurrentVersion(eco, manifest[i].declared) # registry[i].latest

\* One record per extracted entry the loop has passed, and the loop passes
\* every entry before the resolver returns.
OneRecordEach ==
    /\ \A i \in Extracted : Cardinality(RecordsOf(i)) = IF i \in visited THEN 1 ELSE 0
    /\ Len(deps) = Cardinality(Extracted \cap visited)
    /\ Returned => visited = 1..Len(manifest)

C10_DepsScore ==
    Returned =>
        LET ms == Threshold
            term(k) == IF deps[k].Status \in {"stale", "outdated"}
                       THEN Min(deps[k].StaleDays * 15, 15 * ms) ELSE 0
            sum == SumSeq([k \in 1..Len(deps) |-> term(k)])
            expected == IF deps = <<>> THEN 100 * ms
                        ELSE Max(0, Min(100 * ms, 100 * ms - sum))
            known == SelectSeq(deps, LAMBDA d : d.Status # "unknown")
            without == depsScore(known, maxStaleDays)
        IN  /\ depScore.num * ms = expected * depScore.den
            /\ depScore.num * without.den = without.num * depScore.den

C10_Witness ==
    /\ Returned
    /\ maxStaleDays = 0
    /\ Len(deps) = 2
    /\ deps[1].Status = "unknown"
    /\ deps[2].Status = "stale" /\ deps[2].StaleDays = 60
    /\ depScore = [num |-> 8100, den |-> 90]

(***************************************************************************)
(* Language selection: DetectLanguage, NewLanguageAnalyzer and             *)
(* detectOrConfiguredLanguage                                              *)
(***************************************************************************)
\* DetectLanguage's table of manifest names, in the order it is walked.
checks ==
    << [file |-> "go.mod",           lang |-> "go"],
       [file |-> "package.json",     lang |-> "typescript"],
       [file |-> "pyproject.toml",   lang |-> "python"],
       [file |-> "requirements.txt", lang |-> "python"],
       [file |-> "Cargo.toml",       lang |-> "rust"],
       [file |-> "pom.xml",          lang |-> "java"],
       [file |-> "build.gradle",     lang |-> "java"],
       [file |-> "Gemfile",          lang |-> "ruby"],
       [file |-> "composer.json",    lang |-> "php"] >>

\* What can lie at the root: the manifests of the table, a .csproj file in
\* the root ("*.csproj") and one in a directory of the root ("*/*.csproj").
RootEntries == {checks[i].file : i \in 1..Len(checks)} \cup {"*.csproj", "*/*.csproj"}

\* cfg.Language: empty, the eight languages, "unknown" and a name the
\* program does not know.
ConfiguredLanguages ==
    {"", "go", "typescript", "python", "rust", "java", "ruby", "php", "csharp",
     "unknown", "kotlin"}

\* The loop over checks from entry i on, then the two globs.
RECURSIVE DetectFrom(_, _)
DetectFrom(root, i) ==
    IF i <= Len(checks)
    THEN IF checks[i].file \in root THEN checks[i].lang ELSE DetectFrom(root, i + 1)
    ELSE IF "*.csproj" \in root THEN "csharp"
    ELSE IF "*/*.csproj" \in root THEN "csharp"
    ELSE "unknown"

DetectLanguage(root) == DetectFrom(root, 1)

NewLanguageAnalyzer(lang) ==
    CASE lang = "go"         -> "GoAnalyzer"
      [] lang = "typescript" -> "TypeScriptAnalyzer"
      [] lang = "python"     -> "PythonAnalyzer"
      [] lang = "rust"       -> "RustAnalyzer"
      [] lang = "java"       -> "JavaAnalyzer"
      [] lang = "ruby"       -> "RubyAnalyzer"
      [] lang = "php"        -> "PHPAnalyzer"
      [] lang = "csharp"     -> "CSharpAnalyzer"
      [] OTHER               -> "GoAnalyzer"

\* A variant in which a detected language wins over the configured one.
detectOrConfiguredLanguageDetectFirst(language, root) ==
    IF DetectLanguage(root) # "unknown" THEN NewLanguageAnalyzer(DetectLanguage(root))
    ELSE NewLanguageAnalyzer(language)

detectOrConfiguredLanguage(language, root) ==
    IF language # "" THEN NewLanguageAnalyzer(language)
    ELSE NewLanguageAnalyzer(DetectLanguage(root))

(***************************************************************************)
(* SpecLang: an Analyzer is constructed for a root and a configuration     *)
(***************************************************************************)
InitLang ==
    /\ IdleCalc /\ IdleHeur /\ IdleBound /\ IdleDead /\ IdleDeps /\ IdleScore /\ IdleRun /\ IdleSingle /\ IdleTui /\ IdleWatch /\ IdleRuby /\ IdleWalk /\ IdleHist
    /\ present \in SUBSET RootEntries
    /\ cfgLanguage \in ConfiguredLanguages
    /\ analyzerKind = "none"

\* analyzer.New(cfg)
New ==
    /\ analyzerKind = "none"
    /\ analyzerKind' = detectOrConfiguredLanguage(cfgLanguage, present)
    /\ UNCHANGED <<present, cfgLanguage>>
    /\ UNCHANGED <<calcVars, heurVars, boundVars, deadVars, depsVars, scoreVars, runVars, singleVars, tuiVars, watchVars, rubyVars, walkVars, histVars>>

NextLang == New

SpecLang == InitLang /\ [][NextLang]_vars

\* The claim's order of manifests and the analyzer each stands for.
ManifestOrder ==
    << "go.mod", "package.json", "pyproject.toml", "requirements.txt", "Cargo.toml",
       "pom.xml", "build.gradle", "Gemfile", "composer.json", "*.csproj" >>

AnalyzerFor(m) ==
    CASE m = "go.mod" -> "GoAnalyzer"
      [] m = "package.json" -> "TypeScriptAnalyzer"
      [] m \in {"pyproject.toml", "requirements.txt"} -> "PythonAnalyzer"
      [] m = "Cargo.toml" -> "RustAnalyzer"
      [] m \in {"pom.xml", "build.gradle"} -> "JavaAnalyzer"
      [] m = "Gemfile" -> "RubyAnalyzer"
      [] m = "composer.json" -> "PHPAnalyzer"
      [] m = "*.csproj" -> "CSharpAnalyzer"

\* A .csproj file counts as present in the root or one directory below it.
Present(m) ==
    IF m = "*.csproj" THEN present \cap {"*.csproj", "*/*.csproj"} # {} ELSE m \in present

Swap(funcs, i, j) == [funcs EXCEPT ![i] = funcs[j], ![j] = funcs[i]]

\* A variant of the inner loop that exchanges on a smaller complexity.
RECURSIVE InnerLoopAscending(_, _, _)
InnerLoopAscending(funcs, i, j) ==
    IF j > Len(funcs) THEN funcs
    ELSE InnerLoopAscending(IF funcs[j].Complexity < funcs[i].Complexity
                            THEN Swap(funcs, i, j) ELSE funcs, i, j + 1)

\* for j := i + 1; j < len(funcs); j++ { if funcs[j] > funcs[i] { swap } }
RECURSIVE InnerLoop(_, _, _)
InnerLoop(funcs, i, j) ==
    IF j > Len(funcs) THEN funcs
    ELSE InnerLoop(IF funcs[j].Complexity > funcs[i].Complexity
                   THEN Swap(funcs, i, j) ELSE funcs, i, j + 1)

\* for i := 0; i < len(funcs); i++ { ... }
RECURSIVE OuterLoop(_, _)
OuterLoop(funcs, i) ==
    IF i > Len(funcs) THEN funcs ELSE OuterLoop(InnerLoop(funcs, i, i + 1), i + 1)

sortComplexityDesc(funcs) == OuterLoop(funcs, 1)

\* The tree as the analyzer's methods see it:
\*   rootOk        the root directory exists and can be read
\*   nFiles        how many source files of the language lie under it
\*   funcs         the records AnalyzeComplexity returns, in discovery order
\*   depsErr       the manifest is absent or cannot be parsed
\*   depsFound     the records AnalyzeDeps returns otherwise
\*   nViolations   how many violations AnalyzeImports returns
\*   unreferenced  the exported symbols AnalyzeDeadCode finds uncalled
FuncRecords == [Name : {"f", "g"}, Complexity : {1, 2, 3}]
DepLists == {<<>>, <<[StaleDays |-> 0, Status |-> "current"]>>,
             <<[StaleDays |-> 60, Status |-> "stale"]>>}

Trees ==
    {t \in
        {[rootOk |-> TRUE, nFiles |-> 1, funcs |-> fs, depsErr |-> de, depsFound |-> ds,
          nViolations |-> nv, unreferenced |-> un] :
            fs \in UNION {[1..n -> FuncRecords] : n \in 0..MaxFound},
            de \in BOOLEAN, ds \in DepLists, nv \in {0, 1}, un \in SUBSET {Foo, <<"Bar">>}}
        \cup
        {[rootOk |-> ok, nFiles |-> 0, funcs |-> <<>>, depsErr |-> de, depsFound |-> ds,
          nViolations |-> 0, unreferenced |-> {}] :
            ok \in BOOLEAN, de \in BOOLEAN, ds \in DepLists} :
        /\ t.depsErr => t.depsFound = <<>>
        /\ ~t.rootOk => t.depsErr}

\* a.lang.FindFiles(root, exclude): the walk's callback answers every
\* error with nil, so the walk reports none.
FindFiles(t) ==
    [files |-> IF t.rootOk THEN t.nFiles ELSE 0, err |-> FALSE]

\* a.lang.AnalyzeDeps(root)
AnalyzeDeps(t) ==
    IF t.depsErr \/ ~t.rootOk THEN [deps |-> <<>>, err |-> TRUE]
    ELSE [deps |-> t.depsFound, err |-> FALSE]

NilResults ==
    [FileCount |-> 0, FuncCount |-> 0, Complexity |-> <<>>, Dependencies |-> <<>>,
     Violations |-> 0, DeadCode |-> <<>>]

\* A variant of Run that gives up when dependency resolution fails.
RunStrictDeps(t) ==
    LET ff == FindFiles(t)
        ad == AnalyzeDeps(t)
    IN  IF ff.err \/ ad.err THEN {[err |-> TRUE, nil |-> TRUE, results |-> NilResults]}
        ELSE {[err |-> FALSE, nil |-> FALSE,
               results |-> [FileCount |-> ff.files,
                            FuncCount |-> Len(t.funcs),
                            Complexity |-> sortComplexityDesc(t.funcs),
                            Dependencies |-> ad.deps,
                            Violations |-> t.nViolations,
                            DeadCode |-> dc]] : dc \in SeqsOf(t.unreferenced)}

\* Analyzer.Run(): the (results, err) pairs it can return on tree t; the
\* dead-code analysis ranges over a map, so DeadCode comes in any order.
Run(t) ==
    LET ff == FindFiles(t)
        ad == AnalyzeDeps(t)
    IN  IF ff.err THEN {[err |-> TRUE, nil |-> TRUE, results |-> NilResults]}
        ELSE {[err |-> FALSE, nil |-> FALSE,
               results |-> [FileCount |-> ff.files,
                            FuncCount |-> Len(t.funcs),
                            Complexity |-> sortComplexityDesc(t.funcs),
                            Dependencies |-> IF ad.err THEN <<>> ELSE ad.deps,
                            Violations |-> t.nViolations,
                            DeadCode |-> dc]] : dc \in SeqsOf(t.unreferenced)}

\* The Score a fresh Scorer with the default configuration gives results.
ScoreOf(res) ==
    Calculate([Complexity |-> res.Complexity, Dependencies |-> res.Dependencies,
               Violations |-> res.Violations, DeadCode |-> Len(res.DeadCode)],
              [Weights |-> DefaultWeights, Thresholds |-> DefaultThresholds],
              NoPrevious)

(***************************************************************************)
(* SpecRun: full analyses of one unchanged tree, each followed by          *)
(* Calculate                                                               *)
(***************************************************************************)
InitRun ==
    /\ IdleCalc /\ IdleHeur /\ IdleBound /\ IdleDead /\ IdleDeps /\ IdleScore /\ IdleLang /\ IdleSingle /\ IdleTui /\ IdleWatch /\ IdleRuby /\ IdleWalk /\ IdleHist
    /\ tree \in Trees
    /\ runs = <<>>

RunAndScore ==
    /\ Len(runs) < MaxRuns
    /\ \E out \in Run(tree) :
          runs' = Append(runs, [err |-> out.err, nil |-> out.nil, results |-> out.results,
                                score |-> ScoreOf(out.results)])
    /\ UNCHANGED tree
    /\ UNCHANGED <<calcVars, heurVars, boundVars, deadVars, depsVars, scoreVars, langVars, singleVars, tuiVars, watchVars, rubyVars, walkVars, histVars>>

NextRun == RunAndScore

SpecRun == InitRun /\ [][NextRun]_vars

\* How often record x occurs in list l.
Occurrences(l, x) == Cardinality({i \in 1..Len(l) : l[i] = x})

Levels == {fr.Complexity : fr \in FuncRecords}
AtLevel(l, v) == SelectSeq(l, LAMBDA fc : fc.Complexity = v)

\* C15: after Run, Results.Complexity is a permutation of the records
\* AnalyzeComplexity returned, in order of non-increasing complexity, for
\* every list, empty lists and lists with duplicates included.
C15_SortedPermutation ==
    \A k \in 1..Len(runs) :
        ~runs[k].nil =>
            LET sorted == runs[k].results.Complexity
            IN  /\ Len(sorted) = Len(tree.funcs)
                /\ \A x \in FuncRecords : Occurrences(sorted, x) = Occurrences(tree.funcs, x)
                /\ \A i \in 1..Len(sorted) - 1 :
                      sorted[i].Complexity >= sorted[i + 1].Complexity

C15_Witness ==
    /\ Len(runs) >= 1
    /\ tree.funcs = << [Name |-> "f", Complexity |-> 1], [Name |-> "g", Complexity |-> 3],
                       [Name |-> "f", Complexity |-> 1] >>
    /\ runs[1].results.Complexity =
          << [Name |-> "g", Complexity |-> 3], [Name |-> "f", Complexity |-> 1],
             [Name |-> "f", Complexity |-> 1] >>

\* C16: the complexity sort is stable: records of equal complexity appear in
\* Results.Complexity in the order in which AnalyzeComplexity returned them.
C16_Stable ==
    \A k \in 1..Len(runs) :
        ~runs[k].nil =>
            \A v \in Levels : AtLevel(runs[k].results.Complexity, v) = AtLevel(tree.funcs, v)

\* C17: two full analyses of an unchanged tree, each followed by Calculate,
\* give the same ordered FunctionRecord, Dependency, BoundaryViolation and
\* DeadFunction lists and the same sub-scores.
C17_Deterministic ==
    \A i, j \in 1..Len(runs) : runs[i] = runs[j]

\* C19: when the files under the root cannot be enumerated, Run returns an
\* error and no Results.
C19_DiscoveryFatal ==
    \A k \in 1..Len(runs) : ~tree.rootOk => (runs[k].err /\ runs[k].nil)

\* C20: when dependency resolution fails after a successful discovery, Run
\* returns Results without error, Dependencies is empty, and FileCount,
\* Complexity, Violations and DeadCode are what a run with a successful
\* dependency resolution can return.
C20_DepsIsolated ==
    \A k \in 1..Len(runs) :
        (tree.rootOk /\ AnalyzeDeps(tree).err) =>
            /\ ~runs[k].err /\ ~runs[k].nil
            /\ runs[k].results.Dependencies = <<>>
            /\ \A ds \in DepLists :
                  \E out \in Run([tree EXCEPT !.depsErr = FALSE, !.depsFound = ds]) :
                      /\ ~out.err
                      /\ out.results.Dependencies = ds
                      /\ out.results.FileCount = runs[k].results.FileCount
                      /\ out.results.Complexity = runs[k].results.Complexity
                      /\ out.results.Violations = runs[k].results.Violations
                      /\ out.results.DeadCode = runs[k].results.DeadCode

C20_Witness ==
    /\ Len(runs) >= 1
    /\ tree.rootOk /\ tree.depsErr
    /\ Len(tree.funcs) = 2 /\ tree.nViolations = 1 /\ tree.unreferenced = {Foo}
    /\ ~runs[1].err
    /\ runs[1].results.Dependencies = <<>>
    /\ runs[1].results.FileCount = 1
    /\ Len(runs[1].results.Complexity) = 2
    /\ runs[1].results.Violations = 1
    /\ runs[1].results.DeadCode = <<Foo>>

\* How many requests of the pass were made for manifest entry i, and to url.
RequestCount(i) == Cardinality({k \in 1..Len(requests) : requests[k].dep = i})
UrlCount(i, url) ==
    Cardinality({k \in 1..Len(requests) : requests[k].dep = i /\ requests[k].url = url})

DotGo == <<".", "g", "o">>
DotTs == <<".", "t", "s">>
DotTsx == <<".", "t", "s", "x">>

\* a.lang.Extensions() of the analyzers callers are given here.
Extensions(kind) ==
    IF kind = "TypeScriptAnalyzer" THEN <<DotTs, DotTsx>> ELSE <<DotGo>>

SingleKinds == {"GoAnalyzer", "TypeScriptAnalyzer"}

\* The paths RunSingle is called with: source files, a file named by the
\* bare extension, a file of another kind, a name shorter than the extension.
SinglePaths ==
    { <<"a">> \o DotGo, <<"b">> \o DotGo, DotGo, <<"a">> \o DotTsx, <<"a">> \o DotTs,
      DotTs, <<"a", ".", "m", "d">>, <<"g", "o">> }

\* What AnalyzeComplexity finds in each file of the project.
FuncsIn(path) ==
    IF path = <<"a">> \o DotGo
    THEN << [Name |-> "f", Complexity |-> 1], [Name |-> "g", Complexity |-> 3] >>
    ELSE IF path \in {<<"b">> \o DotGo, <<"a">> \o DotTsx}
    THEN << [Name |-> "f", Complexity |-> 2] >>
    ELSE IF path \in {DotGo, DotTs} THEN << [Name |-> "g", Complexity |-> 2] >>
    ELSE <<>>

\* a.lang.AnalyzeComplexity(files)
RECURSIVE AnalyzeComplexity(_)
AnalyzeComplexity(fileList) ==
    IF fileList = <<>> THEN <<>>
    ELSE FuncsIn(Head(fileList)) \o AnalyzeComplexity(Tail(fileList))

\* path[len(path)-len(ext):] == ext
EndsWith(path, ext) ==
    Len(path) >= Len(ext) /\ SubSeq(path, Len(path) - Len(ext) + 1, Len(path)) = ext

\* A variant of the extension test that accepts a path equal to the extension.
MatchedAnySuffix(path, exts) ==
    \E k \in 1..Len(exts) : EndsWith(path, exts[k])

\* The loop over Extensions(): len(path) > len(ext) && suffix == ext
Matched(path, exts) ==
    \E k \in 1..Len(exts) : Len(path) > Len(exts[k]) /\ EndsWith(path, exts[k])

\* The Results RunSingle(path) returns.
RunSingle(kind, path) ==
    IF ~Matched(path, Extensions(kind)) THEN NilResults
    ELSE [NilResults EXCEPT !.Complexity = AnalyzeComplexity(<<path>>),
                            !.FuncCount = Len(AnalyzeComplexity(<<path>>)),
                            !.FileCount = 1]

\* The project a full Run sees: the two Go files.
ProjectTree ==
    [rootOk |-> TRUE, nFiles |-> 2,
     funcs |-> AnalyzeComplexity(<< <<"a">> \o DotGo, <<"b">> \o DotGo >>),
     depsErr |-> FALSE, depsFound |-> <<[StaleDays |-> 0, Status |-> "current"]>>,
     nViolations |-> 1, unreferenced |-> {Foo}]

Callers == 1..MaxCallers
NoHolder == 0

(***************************************************************************)
(* SpecSingle: goroutines call Run and RunSingle on one Analyzer           *)
(***************************************************************************)
InitSingle ==
    /\ IdleCalc /\ IdleHeur /\ IdleBound /\ IdleDead /\ IdleDeps /\ IdleScore /\ IdleLang /\ IdleRun /\ IdleTui /\ IdleWatch /\ IdleRuby /\ IdleWalk /\ IdleHist
    /\ singleKind \in SingleKinds
    /\ mu = NoHolder
    /\ callerPc = [c \in Callers |-> "idle"]
    /\ callerPath = [c \in Callers |-> <<>>]
    /\ lastFull = <<>>
    /\ lastSingle = <<>>

\* A goroutine enters Run; Run takes no lock.
CallRun(c) ==
    /\ callerPc[c] = "idle"
    /\ callerPc' = [callerPc EXCEPT ![c] = "Run"]
    /\ UNCHANGED <<singleKind, mu, callerPath, lastFull, lastSingle>>
    /\ UNCHANGED <<calcVars, heurVars, boundVars, deadVars, depsVars, scoreVars, langVars, runVars, tuiVars, watchVars, rubyVars, walkVars, histVars>>

\* Run returns its Results.
ReturnRun(c) ==
    /\ callerPc[c] = "Run"
    /\ \E out \in Run(ProjectTree) : lastFull' = out.results
    /\ callerPc' = [callerPc EXCEPT ![c] = "idle"]
    /\ UNCHANGED <<singleKind, mu, callerPath, lastSingle>>
    /\ UNCHANGED <<calcVars, heurVars, boundVars, deadVars, depsVars, scoreVars, langVars, runVars, tuiVars, watchVars, rubyVars, walkVars, histVars>>

\* A goroutine calls RunSingle(path) and reaches a.mu.Lock().
CallRunSingle(c, path) ==
    /\ callerPc[c] = "idle"
    /\ callerPc' = [callerPc EXCEPT ![c] = "Lock"]
    /\ callerPath' = [callerPath EXCEPT ![c] = path]
    /\ UNCHANGED <<singleKind, mu, lastFull, lastSingle>>
    /\ UNCHANGED <<calcVars, heurVars, boundVars, deadVars, depsVars, scoreVars, langVars, runVars, tuiVars, watchVars, rubyVars, walkVars, histVars>>

\* a.mu.Lock() succeeds.
Lock(c) ==
    /\ callerPc[c] = "Lock"
    /\ mu = NoHolder
    /\ mu' = c
    /\ callerPc' = [callerPc EXCEPT ![c] = "RunSingle"]
    /\ UNCHANGED <<singleKind, callerPath, lastFull, lastSingle>>
    /\ UNCHANGED <<calcVars, heurVars, boundVars, deadVars, depsVars, scoreVars, langVars, runVars, tuiVars, watchVars, rubyVars, walkVars, histVars>>

\* The body of RunSingle runs, it returns, and the deferred Unlock runs.
ReturnRunSingle(c) ==
    /\ callerPc[c] = "RunSingle"
    /\ lastSingle' = [path |-> callerPath[c],
                      results |-> RunSingle(singleKind, callerPath[c])]
    /\ mu' = NoHolder
    /\ callerPc' = [callerPc EXCEPT ![c] = "idle"]
    /\ callerPath' = [callerPath EXCEPT ![c] = <<>>]
    /\ UNCHANGED <<singleKind, lastFull>>
    /\ UNCHANGED <<calcVars, heurVars, boundVars, deadVars, depsVars, scoreVars, langVars, runVars, tuiVars, watchVars, rubyVars, walkVars, histVars>>

NextSingle ==
    \/ \E c \in Callers : CallRun(c)
    \/ \E c \in Callers : ReturnRun(c)
    \/ \E c \in Callers, path \in SinglePaths : CallRunSingle(c, path)
    \/ \E c \in Callers : Lock(c)
    \/ \E c \in Callers : ReturnRunSingle(c)

SpecSingle == InitSingle /\ [][NextSingle]_vars

\* The path's suffix is one of the analyzer's extensions.
SuffixIsExtension(path) ==
    \E k \in 1..Len(Extensions(singleKind)) : EndsWith(path, Extensions(singleKind)[k])

OnlyComplexity(res) ==
    res.Dependencies = <<>> /\ res.Violations = 0 /\ res.DeadCode = <<>>

\* C21 as stated: RunSingle(path) returns the functions of that one file with
\* FileCount 1 whenever the path's suffix is one of the extensions.
C21_Original ==
    lastSingle # <<>> =>
        (SuffixIsExtension(lastSingle.path) => lastSingle.results.FileCount = 1)

\* C21: RunSingle(path) recomputes complexity only. For a path longer than
\* an extension it ends with, it returns exactly the functions of that file
\* with FileCount 1; for any other path no functions and FileCount 0;
\* Dependencies, Violations and DeadCode are empty; and a Results returned
\* by an earlier Run is left as it was.
C21_SingleFrame ==
    /\ lastSingle # <<>> =>
          LET res == lastSingle.results
              path == lastSingle.path
              longer == \E k \in 1..Len(Extensions(singleKind)) :
                            /\ EndsWith(path, Extensions(singleKind)[k])
                            /\ Len(path) > Len(Extensions(singleKind)[k])
          IN  /\ OnlyComplexity(res)
              /\ longer => (res.FileCount = 1 /\ res.Complexity = FuncsIn(path))
              /\ ~longer => (res.FileCount = 0 /\ res.Complexity = <<>>)
    /\ (lastSingle # <<>> /\ lastFull # <<>>) =>
          lastFull \in {out.results : out \in Run(ProjectTree)}

C21_Witness ==
    /\ lastFull # <<>> /\ lastFull.FileCount = 2
    /\ lastSingle # <<>> /\ lastSingle.path = <<"a">> \o DotGo
    /\ singleKind = "GoAnalyzer"
    /\ lastSingle.results.FileCount = 1
    /\ Len(lastSingle.results.Complexity) = 2

\* C22: a RunSingle never executes at the same time as another RunSingle or
\* as a full Run on the same Analyzer.
C22_Exclusive ==
    \A c, d \in Callers :
        (c # d /\ callerPc[c] = "RunSingle") => callerPc[d] \notin {"RunSingle", "Run"}

(***************************************************************************)
(* The dashboard: every refresh key press and every file change starts a   *)
(* command goroutine that runs the analysis and calls Calculate on the     *)
(* one shared Scorer                                                       *)
(***************************************************************************)
\* The Results m.ana.Run() can return as the tree changes.
TuiResults ==
    {[Complexity |-> <<>>, Dependencies |-> <<>>, Violations |-> nv, DeadCode |-> nd] :
        nv \in {0, 1}, nd \in {0, 2}}

TuiConfig == [Weights |-> DefaultWeights, Thresholds |-> DefaultThresholds]

Goroutines == 1..MaxAnalyses
NotStarted == [pc |-> "none", results |-> <<>>, score |-> <<>>]

\* runDashboard: the initial analysis and the first Calculate, then tui.New.
InitTui ==
    /\ IdleCalc /\ IdleHeur /\ IdleBound /\ IdleDead /\ IdleDeps /\ IdleScore /\ IdleLang /\ IdleRun /\ IdleSingle /\ IdleWatch /\ IdleRuby /\ IdleWalk /\ IdleHist
    /\ \E r \in TuiResults :
          /\ shown = Calculate(r, TuiConfig, NoPrevious)
          /\ scorerPrevious = Calculate(r, TuiConfig, NoPrevious).Total
          /\ completed = <<Calculate(r, TuiConfig, NoPrevious)>>
    /\ goroutine = [g \in Goroutines |-> NotStarted]
    /\ activity = 0

\* tea runs the command runAnalysis returned in a goroutine of its own.
Start(gs, g) == [gs EXCEPT ![g] = [pc |-> "Run", results |-> <<>>, score |-> <<>>]]

\* Update(tea.KeyMsg "r")
KeyRefresh(g) ==
    /\ goroutine[g].pc = "none"
    /\ goroutine' = Start(goroutine, g)
    /\ UNCHANGED <<scorerPrevious, shown, completed, activity>>
    /\ UNCHANGED <<calcVars, heurVars, boundVars, deadVars, depsVars, scoreVars, langVars, runVars, singleVars, watchVars, rubyVars, walkVars, histVars>>

\* Update(fileChangedMsg): the activity list grows (20 at most), the
\* analysis is started and the listener is armed again.
FileChanged(g) ==
    /\ goroutine[g].pc = "none"
    /\ activity' = IF activity + 1 > ActivityCap THEN ActivityCap ELSE activity + 1
    /\ goroutine' = Start(goroutine, g)
    /\ UNCHANGED <<scorerPrevious, shown, completed>>
    /\ UNCHANGED <<calcVars, heurVars, boundVars, deadVars, depsVars, scoreVars, langVars, runVars, singleVars, watchVars, rubyVars, walkVars, histVars>>

\* results, err := m.ana.Run(); the goroutine then enters Calculate.
AnalysisRun(g, r) ==
    /\ goroutine[g].pc = "Run"
    /\ goroutine' = [goroutine EXCEPT ![g].pc = "Calculate", ![g].results = r]
    /\ UNCHANGED <<scorerPrevious, shown, completed, activity>>
    /\ UNCHANGED <<calcVars, heurVars, boundVars, deadVars, depsVars, scoreVars, langVars, runVars, singleVars, watchVars, rubyVars, walkVars, histVars>>

\* Calculate up to `score.Delta = score.Total - s.previous`: s.previous is
\* read here.
CalculateDelta(g) ==
    /\ goroutine[g].pc = "Calculate"
    /\ goroutine' = [goroutine EXCEPT
          ![g].pc = "Store",
          ![g].score = Calculate(goroutine[g].results, TuiConfig, scorerPrevious)]
    /\ UNCHANGED <<scorerPrevious, shown, completed, activity>>
    /\ UNCHANGED <<calcVars, heurVars, boundVars, deadVars, depsVars, scoreVars, langVars, runVars, singleVars, watchVars, rubyVars, walkVars, histVars>>

\* `s.previous = score.Total; return score`: Calculate completes.
CalculateStore(g) ==
    /\ goroutine[g].pc = "Store"
    /\ scorerPrevious' = goroutine[g].score.Total
    /\ completed' = Append(completed, goroutine[g].score)
    /\ goroutine' = [goroutine EXCEPT ![g].pc = "Msg"]
    /\ UNCHANGED <<shown, activity>>
    /\ UNCHANGED <<calcVars, heurVars, boundVars, deadVars, depsVars, scoreVars, langVars, runVars, singleVars, watchVars, rubyVars, walkVars, histVars>>

\* Update(analysisCompleteMsg): the score is put on the screen.
AnalysisComplete(g) ==
    /\ goroutine[g].pc = "Msg"
    /\ shown' = goroutine[g].score
    /\ goroutine' = [goroutine EXCEPT ![g].pc = "done"]
    /\ UNCHANGED <<scorerPrevious, completed, activity>>
    /\ UNCHANGED <<calcVars, heurVars, boundVars, deadVars, depsVars, scoreVars, langVars, runVars, singleVars, watchVars, rubyVars, walkVars, histVars>>

NextTui ==
    \/ \E g \in Goroutines : KeyRefresh(g)
    \/ \E g \in Goroutines : FileChanged(g)
    \/ \E g \in Goroutines, r \in TuiResults : AnalysisRun(g, r)
    \/ \E g \in Goroutines : CalculateDelta(g)
    \/ \E g \in Goroutines : CalculateStore(g)
    \/ \E g \in Goroutines : AnalysisComplete(g)

SpecTui == InitTui /\ [][NextTui]_vars

InCalculate(g) == goroutine[g].pc \in {"Calculate", "Store"}

\* C23: the dashboard serializes the Calculate calls on its Scorer: no two
\* of them overlap, and the Delta of every completed analysis is its Total
\* minus the Total of the analysis completed immediately before it.
C23_Serialized ==
    /\ \A g, h \in Goroutines : (InCalculate(g) /\ InCalculate(h)) => g = h
    /\ \A k \in 2..Len(completed) :
          completed[k].Delta = completed[k].Total - completed[k - 1].Total

(***************************************************************************)
(* The file watcher: Watcher.loop and its debounce timers, for one path.   *)
(* Time is counted in ticks of 100 ms.  The loop takes each fsnotify event *)
(* as it arrives and a timer's callback starts as soon as the timer has    *)
(* expired; the steps of a callback interleave freely with the loop.       *)
(***************************************************************************)
DebounceTicks == 2

\* What fsnotify reports: a write or create of a file with a watched
\* extension, one of a file with another extension, another operation.
FsEvents == {"write", "create", "other-extension", "remove"}

\* w.matchesExtension(event.Name), and event.Op&(Write|Create) != 0
Debounced(ev) == ev \in {"write", "create"}

NoTimer == 0

\* timer.Stop(): a timer that has not expired never runs its callback; one
\* that has is left as it is.
StopTimer(ts, id) ==
    IF id # NoTimer /\ ts[id].state = "armed" THEN [ts EXCEPT ![id].state = "stopped"] ELSE ts

\* A variant of the loop that does not stop the timer it replaces.
KeepTimer(ts, id) == ts

(***************************************************************************)
(* SpecWatch: events arrive for one path, timers expire, callbacks run     *)
(***************************************************************************)
\* watcher.New: the loop has just made its empty debounce map.
InitWatch ==
    /\ IdleCalc /\ IdleHeur /\ IdleBound /\ IdleDead /\ IdleDeps /\ IdleScore /\ IdleLang /\ IdleRun /\ IdleSingle /\ IdleTui /\ IdleRuby /\ IdleWalk /\ IdleHist
    /\ now = 0
    /\ arrivals = <<>>
    /\ timers = <<>>
    /\ debounce = NoTimer
    /\ eventsChan = <<>>
    /\ ignored = 0

\* The burst an event arriving now belongs to: that of the event before it
\* when less than 200 ms have passed since, else a new one.
BurstNow ==
    IF arrivals = <<>> THEN 1
    ELSE LET last == arrivals[Len(arrivals)]
         IN  IF now - last.at < DebounceTicks THEN last.burst ELSE last.burst + 1

\* Every timer due by now has expired.
NoneDue ==
    \A id \in 1..Len(timers) : timers[id].state = "armed" => now < timers[id].deadline

\* case event := <-w.inner.Events, one pass of the loop.
LoopEvent(ev) ==
    /\ Len(arrivals) + ignored < MaxFsEvents
    /\ NoneDue
    /\ IF Debounced(ev)
       THEN /\ arrivals' = Append(arrivals, [at |-> now, burst |-> BurstNow])
            /\ timers' = Append(StopTimer(timers, debounce),
                                [deadline |-> now + DebounceTicks, state |-> "armed",
                                 burst |-> BurstNow])
            /\ debounce' = Len(timers) + 1
       ELSE /\ arrivals' = arrivals
            /\ UNCHANGED <<timers, debounce>>
    /\ ignored' = IF Debounced(ev) THEN ignored ELSE ignored + 1
    /\ UNCHANGED <<now, eventsChan>>
    /\ UNCHANGED <<calcVars, heurVars, boundVars, deadVars, depsVars, scoreVars, langVars, runVars, singleVars, tuiVars, rubyVars, walkVars, histVars>>

\* The timer expires and the runtime starts its callback in a goroutine.
Expire(id) ==
    /\ timers[id].state = "armed"
    /\ now >= timers[id].deadline
    /\ timers' = [timers EXCEPT ![id].state = "expired"]
    /\ UNCHANGED <<now, arrivals, debounce, eventsChan, ignored>>
    /\ UNCHANGED <<calcVars, heurVars, boundVars, deadVars, depsVars, scoreVars, langVars, runVars, singleVars, tuiVars, rubyVars, walkVars, histVars>>

\* The callback: w.Events <- Event{...}
Send(id) ==
    /\ timers[id].state = "expired"
    /\ eventsChan' = Append(eventsChan, [burst |-> timers[id].burst, at |-> now])
    /\ timers' = [timers EXCEPT ![id].state = "sent"]
    /\ UNCHANGED <<now, arrivals, debounce, ignored>>
    /\ UNCHANGED <<calcVars, heurVars, boundVars, deadVars, depsVars, scoreVars, langVars, runVars, singleVars, tuiVars, rubyVars, walkVars, histVars>>

\* The callback: delete(debounce, path), whichever timer the entry holds.
Delete(id) ==
    /\ timers[id].state = "sent"
    /\ debounce' = NoTimer
    /\ timers' = [timers EXCEPT ![id].state = "done"]
    /\ UNCHANGED <<now, arrivals, eventsChan, ignored>>
    /\ UNCHANGED <<calcVars, heurVars, boundVars, deadVars, depsVars, scoreVars, langVars, runVars, singleVars, tuiVars, rubyVars, walkVars, histVars>>

\* 100 ms pass.
Tick ==
    /\ now < MaxTicks
    /\ NoneDue
    /\ now' = now + 1
    /\ UNCHANGED <<arrivals, timers, debounce, eventsChan, ignored>>
    /\ UNCHANGED <<calcVars, heurVars, boundVars, deadVars, depsVars, scoreVars, langVars, runVars, singleVars, tuiVars, rubyVars, walkVars, histVars>>

NextWatch ==
    \/ \E ev \in FsEvents : LoopEvent(ev)
    \/ \E id \in 1..MaxFsEvents : id <= Len(timers) /\ Expire(id)
    \/ \E id \in 1..MaxFsEvents : id <= Len(timers) /\ Send(id)
    \/ \E id \in 1..MaxFsEvents : id <= Len(timers) /\ Delete(id)
    \/ Tick

SpecWatch == InitWatch /\ [][NextWatch]_vars

\* The Events sent for burst b, and the last arrival of the burst.
EventsOf(b) == {k \in 1..Len(eventsChan) : eventsChan[k].burst = b}
Bursts == {arrivals[k].burst : k \in 1..Len(arrivals)}

\* C25: a burst of write/create events for one path, each less than 200 ms
\* after the one before, gives exactly one Event: never more than one, and
\* one once every timer of the burst has run or been stopped.
C25_OneEventPerBurst ==
    \A b \in Bursts :
        /\ Cardinality(EventsOf(b)) <= 1
        /\ (\A id \in 1..Len(timers) :
               timers[id].burst = b => timers[id].state \in {"stopped", "done"})
              => Cardinality(EventsOf(b)) = 1

(***************************************************************************)
(* The Ruby scanner: analyzeRubyComplexity.  A line is what the scanner's  *)
(* tests see of it: its indentation and its kind,                          *)
(*   "def"         def name            (rbFuncPattern matches)             *)
(*   "def_"        def _name           (a name the scanner passes over)    *)
(*   "end"         end                                                     *)
(*   "do"          items.each do |x|   (opens a block)                     *)
(*   "if"          if a                (opens a block, weight 1)           *)
(*   "while-do"    while a do          (opens one block, weight 1)         *)
(*   "class-call"  puts x.class        (opens nothing)                     *)
(*   "op"          a && b              (opens nothing, weight 1)           *)
(*   "blank"       an empty line or a comment                              *)
(***************************************************************************)
RubyLines ==
    [kind : {"def", "def_"}, indent : {0}]
    \cup [kind : {"end"}, indent : {0, 1}]
    \cup [kind : {"do", "if", "while-do", "class-call", "op", "blank"}, indent : {1}]

\* The weights rbComplexityPatterns add for a line.
RbWeight(l) == IF l.kind \in {"if", "while-do", "op"} THEN 1 ELSE 0

\* \b(def|class|module|do|begin)\b matches the line
MatchesBlockWord(l) == l.kind \in {"def", "def_", "do", "while-do", "class-call"}

\* ^\s*(if|unless|while|for|until|case)\b matches the line
StartsWithCondition(l) == l.kind \in {"if", "while-do"}

\* What the scanner adds to depth for a body line under a def of the given
\* indentation.
RbOpens(l, indent) ==
    IF l.indent > indent
    THEN (IF MatchesBlockWord(l) THEN 1 ELSE 0) + (IF StartsWithCondition(l) THEN 1 ELSE 0)
    ELSE 0

\* The loop over j from the line after the def: the complexity at its exit.
RECURSIVE RbScan(_, _, _, _, _)
RbScan(lines, indent, j, depth, cx) ==
    IF j > Len(lines) THEN cx
    ELSE LET l == lines[j]
             opened == depth + RbOpens(l, indent)
         IN  IF l.kind = "blank" THEN RbScan(lines, indent, j + 1, depth, cx)
             ELSE IF l.kind = "end"
                  THEN IF l.indent <= indent /\ opened - 1 <= 0 THEN cx
                       ELSE RbScan(lines, indent, j + 1, opened - 1, cx + RbWeight(l))
                  ELSE RbScan(lines, indent, j + 1, opened, cx + RbWeight(l))

\* analyzeRubyComplexity: one record per def line whose name has no
\* leading underscore, in order.
analyzeRubyComplexity(lines) ==
    LET defs == {i \in 1..Len(lines) : lines[i].kind = "def"}
        Nth[n \in 1..Cardinality(defs)] ==
            CHOOSE i \in defs : Cardinality({j \in defs : j < i}) = n - 1
    IN  [n \in 1..Cardinality(defs) |->
            [Line |-> Nth[n],
             Complexity |-> RbScan(lines, lines[Nth[n]].indent, Nth[n] + 1, 1, 1)]]

(***************************************************************************)
(* SpecRuby: a Ruby file grows line by line and is scanned                 *)
(***************************************************************************)
InitRuby ==
    /\ IdleCalc /\ IdleHeur /\ IdleBound /\ IdleDead /\ IdleDeps /\ IdleScore /\ IdleLang /\ IdleRun /\ IdleSingle /\ IdleTui /\ IdleWatch /\ IdleWalk /\ IdleHist
    /\ rubyLines = <<>>
    /\ rubyResults = analyzeRubyComplexity(<<>>)

AppendRubyLine(l) ==
    /\ Len(rubyLines) < MaxRubyLines
    /\ rubyLines' = Append(rubyLines, l)
    /\ rubyResults' = analyzeRubyComplexity(rubyLines')
    /\ UNCHANGED <<calcVars, heurVars, boundVars, deadVars, depsVars, scoreVars, langVars, runVars, singleVars, tuiVars, watchVars, walkVars, histVars>>

DropRubyLine ==
    /\ Len(rubyLines) > 0
    /\ rubyLines' = SubSeq(rubyLines, 1, Len(rubyLines) - 1)
    /\ rubyResults' = analyzeRubyComplexity(rubyLines')
    /\ UNCHANGED <<calcVars, heurVars, boundVars, deadVars, depsVars, scoreVars, langVars, runVars, singleVars, tuiVars, watchVars, walkVars, histVars>>

NextRuby ==
    \/ \E l \in RubyLines : AppendRubyLine(l)
    \/ DropRubyLine

SpecRuby == InitRuby /\ [][NextRuby]_vars

\* The blocks a line really opens.
ReallyOpens(l) == IF l.kind \in {"def", "def_", "do", "if", "while-do"} THEN 1 ELSE 0

\* The `end` that closes the block open at line j - 1 with d blocks open,
\* 0 when the file ends first.
RECURSIVE ClosingEnd(_, _, _)
ClosingEnd(lines, j, d) ==
    IF j > Len(lines) THEN 0
    ELSE IF lines[j].kind = "end"
         THEN IF d = 1 THEN j ELSE ClosingEnd(lines, j + 1, d - 1)
         ELSE ClosingEnd(lines, j + 1, d + ReallyOpens(lines[j]))

RECURSIVE WeightBetween(_, _, _)
WeightBetween(lines, s, e) ==
    IF e < s THEN 0
    ELSE WeightBetween(lines, s, e - 1) + (IF lines[e].kind = "blank" THEN 0 ELSE RbWeight(lines[e]))

\* C27: for a Ruby method whose def is closed by an `end` at or below the
\* def's indentation, every nested opener having been closed by its own
\* `end` before, the scan stops at that `end`: the complexity is the base
\* plus the weights of the lines between the def and that `end`, and no
\* line after it contributes, whatever openers the body nests.
C27_StopsAtEnd ==
    \A n \in 1..Len(rubyResults) :
        LET i == rubyResults[n].Line
            e == ClosingEnd(rubyLines, i + 1, 1)
        IN  (e # 0 /\ rubyLines[e].indent <= rubyLines[i].indent) =>
                rubyResults[n].Complexity = 1 + WeightBetween(rubyLines, i + 1, e - 1)

(***************************************************************************)
(* File discovery: walkFiles and the FindFiles of the Python and           *)
(* TypeScript analyzers.  A name is its sequence of bytes and a path is    *)
(* the sequence of its names; Join puts the separator between them.        *)
(***************************************************************************)
Separator == "/"

RECURSIVE Join(_)
Join(names) ==
    IF names = <<>> THEN <<>>
    ELSE IF Len(names) = 1 THEN names[1]
    ELSE names[1] \o <<Separator>> \o Join(Tail(names))

\* filepath.Ext: the suffix from the last dot of the last name, scanning
\* back from byte i.
RECURSIVE ExtFrom(_, _)
ExtFrom(path, i) ==
    IF i < 1 \/ path[i] = Separator THEN <<>>
    ELSE IF path[i] = "." THEN SubSeq(path, i, Len(path))
    ELSE ExtFrom(path, i - 1)

Ext(path) == ExtFrom(path, Len(path))

CurrentDir == <<<<".">>>>

\* filepath.Join(root, rel) as Walk builds the path it hands the callback.
PathUnder(root, rel) == IF root = CurrentDir THEN Join(rel) ELSE Join(root \o rel)

PythonExclude ==
    {<<"_", "_", "p", "y", "c", "a", "c", "h", "e", "_", "_">>,
     <<".", "v", "e", "n", "v">>,
     <<"v", "e", "n", "v">>,
     <<"e", "n", "v">>,
     <<".", "t", "o", "x">>,
     <<".", "e", "g", "g", "s">>,
     <<".", "m", "y", "p", "y", "_", "c", "a", "c", "h", "e">>}

PythonSkip == {<<"t", "e", "s", "t", "_">>, <<"_", "t", "e", "s", "t", ".", "p", "y">>, <<"c", "o", "n", "f", "t", "e", "s", "t", ".", "p", "y">>}

TypeScriptExclude ==
    {<<"n", "o", "d", "e", "_", "m", "o", "d", "u", "l", "e", "s">>,
     <<"d", "i", "s", "t">>,
     <<"b", "u", "i", "l", "d">>,
     <<".", "n", "e", "x", "t">>,
     <<"c", "o", "v", "e", "r", "a", "g", "e">>}

TypeScriptSkip ==
    {<<".", "t", "e", "s", "t", ".">>,
     <<".", "s", "p", "e", "c", ".">>,
     <<"_", "_", "t", "e", "s", "t", "s", "_", "_">>,
     <<"_", "_", "m", "o", "c", "k", "s", "_", "_">>,
     <<".", "d", ".", "t", "s">>}

WalkLanguages == {"python", "typescript"}

LanguageExclude(lang) == IF lang = "python" THEN PythonExclude ELSE TypeScriptExclude
LanguageSkip(lang) == IF lang = "python" THEN PythonSkip ELSE TypeScriptSkip
LanguageExtensions(lang) ==
    IF lang = "python" THEN {<<".", "p", "y">>} ELSE {<<".", "t", "s">>, <<".", "t", "s", "x">>, <<".", "j", "s">>, <<".", "j", "s", "x">>}

\* The callback's answer for a regular file at path: appended or not.
Appended(path, extensions, skipPatterns) ==
    /\ Ext(path) \in extensions
    /\ \A skip \in skipPatterns : ~Contains(path, skip)

\* walkFiles: filepath.Walk calls the callback for the root first, then for
\* everything under it; SkipDir from a directory leaves out all below it.
\* The result is given as the set of the paths appended.
walkFiles(root, exclude, extensions, skipPatterns, below) ==
    IF root[Len(root)] \in exclude THEN {}
    ELSE {PathUnder(root, rel) : rel \in
            {r \in below :
                /\ \A k \in 1..(Len(r) - 1) : r[k] \notin exclude
                /\ Appended(PathUnder(root, r), extensions, skipPatterns)}}

\* PythonAnalyzer.FindFiles and TypeScriptAnalyzer.FindFiles
FindFilesIn(lang, root, exclude, below) ==
    walkFiles(root, exclude \cup LanguageExclude(lang), LanguageExtensions(lang),
              LanguageSkip(lang), below)

\* The files a project can hold, by their paths below the root, and the
\* roots it can be checked out at.
RelativePaths ==
    {<<<<"a", "p", "p", ".", "p", "y">>>>,
     <<<<"t", "e", "s", "t", "_", "a", "p", "p", ".", "p", "y">>>>,
     <<<<"s", "r", "c">>, <<"a", "p", "p", ".", "p", "y">>>>,
     <<<<"v", "e", "n", "v">>, <<"a", "p", "p", ".", "p", "y">>>>,
     <<<<"a", ".", "t", "s">>>>,
     <<<<"a", ".", "t", "e", "s", "t", ".", "t", "s">>>>,
     <<<<"s", "r", "c">>, <<"a", ".", "t", "s">>>>,
     <<<<"b", "u", "i", "l", "d">>, <<"a", ".", "t", "s">>>>}

Roots ==
    {<<<<".">>>>,
     <<<<"w", "o", "r", "k">>, <<"p", "r", "o", "j">>>>,
     <<<<"w", "o", "r", "k">>, <<"b", "u", "i", "l", "d">>>>,
     <<<<"w", "o", "r", "k">>, <<"v", "e", "n", "v">>>>,
     <<<<"w", "o", "r", "k">>, <<"t", "e", "s", "t", "_", "p", "r", "o", "j">>>>,
     <<<<"t", "e", "s", "t", "_", "d", "a", "t", "a">>, <<"p", "r", "o", "j">>>>}

ConfiguredExcludes == {{}, {<<"s", "r", "c">>}}

(***************************************************************************)
(* SpecWalk: one project's files are discovered from several roots         *)
(***************************************************************************)
InitWalk ==
    /\ IdleCalc /\ IdleHeur /\ IdleBound /\ IdleDead /\ IdleDeps /\ IdleScore /\ IdleLang /\ IdleRun /\ IdleSingle /\ IdleTui /\ IdleWatch /\ IdleRuby /\ IdleHist
    /\ walkLang \in WalkLanguages
    /\ cfgExclude \in ConfiguredExcludes
    /\ contents = {}
    /\ walks = <<>>

\* A file is written into the project; what was found before is forgotten.
CreateFile(rel) ==
    /\ rel \notin contents
    /\ Cardinality(contents) < MaxTreeFiles
    /\ contents' = contents \cup {rel}
    /\ walks' = <<>>
    /\ UNCHANGED <<walkLang, cfgExclude>>
    /\ UNCHANGED <<calcVars, heurVars, boundVars, deadVars, depsVars, scoreVars, langVars, runVars, singleVars, tuiVars, watchVars, rubyVars, histVars>>

\* a.lang.FindFiles(root, cfg.Exclude) with the project at root
CallFindFiles(root) ==
    /\ Len(walks) < MaxWalks
    /\ walks' = Append(walks, [root |-> root,
                               files |-> FindFilesIn(walkLang, root, cfgExclude, contents)])
    /\ UNCHANGED <<walkLang, cfgExclude, contents>>
    /\ UNCHANGED <<calcVars, heurVars, boundVars, deadVars, depsVars, scoreVars, langVars, runVars, singleVars, tuiVars, watchVars, rubyVars, histVars>>

NextWalk ==
    \/ \E rel \in RelativePaths : CreateFile(rel)
    \/ \E root \in Roots : CallFindFiles(root)

SpecWalk == InitWalk /\ [][NextWalk]_vars

\* The paths below the root of the files a call returned.
RelativeFound(w) == {rel \in contents : PathUnder(w.root, rel) \in w.files}

\* C29: two calls of FindFiles on the same contents under different roots
\* return the same set of paths relative to the root.
C29_RootIndependent ==
    \A i, j \in 1..Len(walks) : RelativeFound(walks[i]) = RelativeFound(walks[j])

(***************************************************************************)
(* The history walk: Analyzer.Walk and analyzeCommit of package history.   *)
(* A commit is the set of the file names in its tree, all at the top       *)
(* level (so no exclude+"/*" pattern matches one), or Unreadable when      *)
(* its tree cannot be read or extracted.                                   *)
(***************************************************************************)
Unreadable == {"unreadable"}

TreeFiles == {"go.mod", "main.go", "pyproject.toml", "app.py"}

Commits == (SUBSET TreeFiles) \cup {Unreadable}

\* filepath.Ext of the names a tree can hold
ExtOf(name) ==
    CASE name = "go.mod"         -> ".mod"
      [] name = "main.go"        -> ".go"
      [] name = "pyproject.toml" -> ".toml"
      [] name = "app.py"         -> ".py"
      [] OTHER                   -> ""

\* Extensions() of the analyzers these projects select
ExtensionsOf(kind) ==
    CASE kind = "GoAnalyzer"     -> {".go"}
      [] kind = "PythonAnalyzer" -> {".py"}
      [] OTHER                   -> {}

\* The functions AnalyzeComplexity finds in a file
FunctionsOf(name) ==
    CASE name = "main.go" -> <<[Name |-> "f", Complexity |-> 5]>>
      [] name = "app.py"  -> <<[Name |-> "g", Complexity |-> 20]>>
      [] OTHER            -> <<>>

HistoryLanguages == {"", "go", "python"}

DefaultMaxCommits == 10

\* cIter.ForEach in getCommits: the first max commits of the log from HEAD
getCommits(commitLog, max) ==
    SubSeq(commitLog, 1, IF max < Len(commitLog) THEN max ELSE Len(commitLog))

\* tree.Files().ForEach in analyzeCommit: what is written to the temporary
\* directory, chosen by the extensions of the analyzer detected at the
\* live root.
ExtractedFiles(commit, liveRoot) ==
    {f \in commit : ExtOf(f) \in ExtensionsOf(NewLanguageAnalyzer(DetectLanguage(liveRoot)))}

\* analyzer.New(&tmpCfg): the analyzer for the temporary directory
SnapshotAnalyzer(language, tmpDir) == detectOrConfiguredLanguage(language, tmpDir)

RECURSIVE FunctionsIn(_)
FunctionsIn(names) ==
    IF names = {} THEN <<>>
    ELSE LET f == CHOOSE x \in names : x = "app.py" \/ "app.py" \notin names
         IN  FunctionsOf(f) \o FunctionsIn(names \ {f})

\* ana.Run() on the temporary directory: no manifest is there, so the
\* dependency list is empty; the trees hold no violation and no dead code.
SnapshotResults(kind, tmpDir) ==
    LET found == {f \in tmpDir : ExtOf(f) \in ExtensionsOf(kind)}
    IN  [FileCount |-> Cardinality(found),
         Complexity |-> sortComplexityDesc(FunctionsIn(found)),
         Dependencies |-> <<>>, Violations |-> 0, DeadCode |-> 0]

\* avgComplexity, as an exact fraction
avgComplexity(complexities) ==
    IF Len(complexities) = 0 THEN [num |-> 0, den |-> 1]
    ELSE [num |-> SumSeq([k \in 1..Len(complexities) |-> complexities[k].Complexity]),
          den |-> Len(complexities)]

EmptySparkline ==
    [HealthScore |-> <<>>, AvgComplexity |-> <<>>, ViolationCount |-> <<>>, DeadCodeCount |-> <<>>,
     analysed |-> <<>>]

\* Walk's loop from index i of commits down to 1; data also records, for
\* each commit analysed, its index and the analyzer that Run used.
RECURSIVE WalkLoop(_, _, _, _, _)
WalkLoop(commits, i, language, liveRoot, data) ==
    IF i < 1 THEN data
    ELSE IF commits[i] = Unreadable
         THEN WalkLoop(commits, i - 1, language, liveRoot, data)
         ELSE LET tmpDir == ExtractedFiles(commits[i], liveRoot)
                  kind == SnapshotAnalyzer(language, tmpDir)
                  res == SnapshotResults(kind, tmpDir)
                  sc == Calculate(res, [Weights |-> DefaultWeights, Thresholds |-> DefaultThresholds],
                                  NoPrevious)
              IN  WalkLoop(commits, i - 1, language, liveRoot,
                      [HealthScore |-> Append(data.HealthScore, sc.Total),
                       AvgComplexity |-> Append(data.AvgComplexity, avgComplexity(res.Complexity)),
                       ViolationCount |-> Append(data.ViolationCount, res.Violations),
                       DeadCodeCount |-> Append(data.DeadCodeCount, res.DeadCode),
                       analysed |-> Append(data.analysed, [commit |-> i, analyzer |-> kind])])

\* Analyzer.Walk(maxCommits) on a repository whose log from HEAD is
\* commitLog and whose live root holds liveRoot.
Walk(maxCommits, language, commitLog, liveRoot) ==
    LET commits == getCommits(commitLog, IF maxCommits <= 0 THEN DefaultMaxCommits ELSE maxCommits)
    IN  WalkLoop(commits, Len(commits), language, liveRoot, EmptySparkline)

(***************************************************************************)
(* SpecHist: commits are made and the history is walked                    *)
(***************************************************************************)
NotWalked == -1

\* The live root is the checked-out HEAD; an empty repository has no files.
LiveRoot == IF gitLog = <<>> \/ gitLog[1] = Unreadable THEN {} ELSE gitLog[1]

InitHist ==
    /\ IdleCalc /\ IdleHeur /\ IdleBound /\ IdleDead /\ IdleDeps /\ IdleScore /\ IdleLang /\ IdleRun /\ IdleSingle /\ IdleTui /\ IdleWatch /\ IdleRuby /\ IdleWalk
    /\ histLanguage \in HistoryLanguages
    /\ gitLog = <<>>
    /\ walkMax = NotWalked
    /\ sparkline = EmptySparkline

\* git commit: a new HEAD
Commit(c) ==
    /\ Len(gitLog) < MaxCommits
    /\ gitLog' = <<c>> \o gitLog
    /\ walkMax' = NotWalked
    /\ sparkline' = EmptySparkline
    /\ UNCHANGED histLanguage
    /\ UNCHANGED <<calcVars, heurVars, boundVars, deadVars, depsVars, scoreVars, langVars, runVars, singleVars, tuiVars, watchVars, rubyVars, walkVars>>

\* histAna.Walk(maxCommits)
CallWalk(maxCommits) ==
    /\ gitLog # <<>>
    /\ walkMax' = maxCommits
    /\ sparkline' = Walk(maxCommits, histLanguage, gitLog, LiveRoot)
    /\ UNCHANGED <<histLanguage, gitLog>>
    /\ UNCHANGED <<calcVars, heurVars, boundVars, deadVars, depsVars, scoreVars, langVars, runVars, singleVars, tuiVars, watchVars, rubyVars, walkVars>>

NextHist ==
    \/ \E c \in Commits : Commit(c)
    \/ \E maxCommits \in 0..MaxCommits : CallWalk(maxCommits)

SpecHist == InitHist /\ [][NextHist]_vars

\* The limit a walk works under: maxCommits, or the default for a
\* maxCommits that is not positive.
WalkLimit == IF walkMax <= 0 THEN DefaultMaxCommits ELSE walkMax

\* C30: after a walk, every commit analysed was analysed with the analyzer
\* selected for the live root (configured, or detected there); the four
\* series have the same length, at most the walk's limit; and they run
\* from the oldest commit to the newest.
C30_SameAnalyzer ==
    walkMax # NotWalked =>
        /\ \A k \in 1..Len(sparkline.analysed) :
              sparkline.analysed[k].analyzer = detectOrConfiguredLanguage(histLanguage, LiveRoot)
        /\ Len(sparkline.HealthScore) = Len(sparkline.AvgComplexity)
        /\ Len(sparkline.HealthScore) = Len(sparkline.ViolationCount)
        /\ Len(sparkline.HealthScore) = Len(sparkline.DeadCodeCount)
        /\ Len(sparkline.HealthScore) <= WalkLimit
        /\ \A k \in 1..(Len(sparkline.analysed) - 1) :
              sparkline.analysed[k].commit > sparkline.analysed[k + 1].commit

(***************************************************************************)
(* Properties of the exact calculator                                      *)
(***************************************************************************)
\* TRUE iff node i lies inside a function literal (some proper ancestor is a FuncLit).
RECURSIVE UnderFuncLit(_, _)
UnderFuncLit(ns, i) ==
    LET p == ns[i].parent
    IN  IF p = 0 THEN FALSE
        ELSE ns[p].kind = "FuncLit" \/ UnderFuncLit(ns, p)

IsDecision(n) ==
    \/ n.kind \in {"IfStmt", "ForStmt", "RangeStmt", "SelectStmt", "TypeSwitchStmt"}
    \/ n.kind = "CaseClause" /\ n.tag = "list"
    \/ n.kind = "CommClause" /\ n.tag = "comm"
    \/ n.kind = "BinaryExpr" /\ n.tag \in {"LAND", "LOR"}

Mk(k, t, p) == [kind |-> k, tag |-> t, parent |-> p]

\* C2: a step that adds or removes a node lying inside a nested function
\* literal leaves the enclosing function's complexity unchanged.
C2_ClosureIgnored ==
    [][ ( \/ /\ Len(nodes') = Len(nodes) + 1
             /\ UnderFuncLit(nodes', Len(nodes'))
          \/ /\ Len(nodes') = Len(nodes) - 1
             /\ UnderFuncLit(nodes, Len(nodes)) )
        => complexity' = complexity ]_vars

\* The test's case: if { func() { if {} } } measured as 2.
C2_Witness ==
    /\ Len(nodes) = 3
    /\ nodes[1] = Mk("IfStmt", "", 0)
    /\ nodes[2] = Mk("FuncLit", "", 1)
    /\ nodes[3] = Mk("IfStmt", "", 2)
    /\ complexity = 2

\* C3: nesting does not multiply. The complexity of a body is 1 plus one per
\* decision construct outside function literals, wherever it sits in the
\* tree: one if gives 2, two sibling ifs 3, two nested ifs 3, and
\* (a && b) || (c && d) adds 3.
C3_NestingAdds ==
    /\ ~bodyNil =>
          complexity = 1 + Cardinality({i \in 1..Len(nodes) :
                                          IsDecision(nodes[i]) /\ ~UnderFuncLit(nodes, i)})
    /\ nodes = <<Mk("IfStmt", "", 0)>> => complexity = 2
    /\ nodes = <<Mk("IfStmt", "", 0), Mk("IfStmt", "", 0)>> => complexity = 3
    /\ nodes = <<Mk("IfStmt", "", 0), Mk("IfStmt", "", 1)>> => complexity = 3
    /\ nodes = <<Mk("BinaryExpr", "LOR", 0), Mk("BinaryExpr", "LAND", 1),
                 Mk("BinaryExpr", "LAND", 1)>> => complexity = 4

C3_Witness ==
    /\ nodes = <<Mk("BinaryExpr", "LOR", 0), Mk("BinaryExpr", "LAND", 1),
                 Mk("BinaryExpr", "LAND", 1)>>
    /\ complexity = 4

\* The bodies C4 is about: exactly one loop, exactly one multi-way block, and
\* nothing else but the arms of that block.
Loops(ns) == {i \in 1..Len(ns) : ns[i].kind \in {"ForStmt", "RangeStmt"}}
Blocks(ns) == {i \in 1..Len(ns) :
                  ns[i].kind \in {"SwitchStmt", "TypeSwitchStmt", "SelectStmt"}}
Arms(ns) == {i \in 1..Len(ns) : ns[i].kind \in {"CaseClause", "CommClause"}}
NonDefaultArms(ns) == {i \in Arms(ns) : ns[i].tag # "nil"}

OneLoopOneBlock(ns) ==
    /\ Cardinality(Loops(ns)) = 1
    /\ Cardinality(Blocks(ns)) = 1
    /\ Loops(ns) \cup Blocks(ns) \cup Arms(ns) = 1..Len(ns)

BlockKind(ns) == ns[CHOOSE i \in Blocks(ns) : TRUE].kind

\* C4 as stated: one loop and one multi-way block with N non-default arms
\* gives 1 + 1 + N for every kind of multi-way block.
C4_Original ==
    (~bodyNil /\ OneLoopOneBlock(nodes))
        => complexity = 1 + 1 + Cardinality(NonDefaultArms(nodes))

\* C4 amended: 1 + 1 + N for an expression switch; a type switch and a select
\* add one more for the statement itself (1 + 1 + 1 + N). A default arm adds
\* nothing.
C4_SwitchArms ==
    (~bodyNil /\ OneLoopOneBlock(nodes))
        => complexity = 1 + 1 + Cardinality(NonDefaultArms(nodes))
                          + (IF BlockKind(nodes) = "SwitchStmt" THEN 0 ELSE 1)

C4_Witness ==
    /\ OneLoopOneBlock(nodes)
    /\ BlockKind(nodes) = "TypeSwitchStmt"
    /\ Cardinality(NonDefaultArms(nodes)) = 1
    /\ Arms(nodes) # NonDefaultArms(nodes)
    /\ complexity = 4

====
